---- MODULE Spec2Model ----
(***************************************************************************)
(* OTPi input core: the rotary-encoder sampler (src/encoder.py) and the    *)
(* OLED menu state machine (src/oled_ui.py).                               *)
(*                                                                         *)
(* Time is counted in sampler poll intervals (POLL_S, 1 ms) for the        *)
(* encoder and in tenths of a second for the menu.  A timestamp is the     *)
(* number of whole ticks elapsed, so two events with timestamps t1 <= t2   *)
(* are between t2-t1-1 and t2-t1+1 ticks apart in real time.               *)
(***************************************************************************)
EXTENDS Integers, Sequences, FiniteSets

VARIABLES
    \* ---- Encoder fields (src/encoder.py, Encoder.__init__) ----
    ppr,              \* PPR, transitions per detent (configuration)
    active_low,       \* BTN_ACTIVE_LOW, the button polarity (configuration)
    state,            \* self._state: last sampled (clk<<1)|dt
    accum,            \* self._accum: transitions accumulator
    steps,            \* self._steps: detents pending consumption
    locked,           \* self._lock is held
    press_latch,      \* self._press_latch
    btn_last,         \* self._btn_last
    btn_last_change,  \* self._btn_last_change
    \* ---- sampler thread (_poll_loop) position and locals ----
    spc,              \* "quad" | "lock" | "store" | "btn" | "wait" | "sleep"
    det,              \* local det of the iteration in progress
    tmp,              \* value of self._steps loaded by  self._steps += det
    next_t,           \* local next_t
    wake,             \* end of the time.sleep() inside the release wait
    \* ---- consumer thread (the UI loop calling steps() / pressed()) ----
    cpc,              \* "idle" | "zero" (inside steps()) | "clear" (inside pressed())
    s,                \* local s of steps()
    \* ---- environment ----
    now,              \* time.perf_counter(), in poll intervals
    sw,               \* level of the button line
    knob,             \* the knob may be turned in this run
    horizon,          \* the run is explored up to this time
    script,           \* directions the knob is turned in, then turned back; <<>>: freely
    \* ---- history (observation only, never read by the program) ----
    extracted,        \* sum of the det added to self._steps
    returned,         \* sum of the values returned by steps()
    drained,          \* steps() has returned at least once
    prevRet,          \* value returned by the previous steps() call
    quiet,            \* no transition polled / extraction in flight since the last steps() read
    wasQuiet,         \* value of quiet when the steps() call in progress read
    transSum,         \* signed count of Gray-adjacent transitions polled
    dirs,             \* directions of the Gray-adjacent transitions polled
    nPress,           \* physical presses so far
    pressAt,          \* time the latest press began
    heldFor,          \* duration of the latest press (so far, once released: final)
    nLatch,           \* times the sampler set the latch
    nTrue,            \* pressed() calls that returned True
    unseen,           \* the latch was set after the last pressed() read of it
    overrun,          \* a latch was set before pressed() had consumed the one before
    pos,              \* moves of the script polled so far
    accum0,           \* self._accum when the script began
    consecutive_errors, \* consecutive_errors of _poll_loop
    failing,          \* the lines whose reads raise: "none", "quad", "btn", "both"
    erred,            \* a read has raised in the iteration in progress
    errIters,         \* iterations completed in a row, each with a read that raised
    afterStop,        \* what a call begun after the sampler stopped has returned:
                      \* "none", "steps" (steps() non-zero), "press" (pressed() True)
    \* ---- Encoder objects and the GPIO lines (src/encoder.py, _LgpioPin, _cleanup) ----
    stop,             \* self._stop of each Encoder object
    alive,            \* self._t.is_alive() of each Encoder object
    phase,            \* each object: "absent", "running", "stopping" (close() has set the
                      \* flag and joins), "joined" (about to close the lines), "closed"
    pins,             \* each object's pin for each line: "none", "lgpio", "dummy"
    chip,             \* _LgpioPin._chip: 0 for None, else the handle (named after the
                      \* object whose construction opened it)
    claimed_pins,     \* _LgpioPin._claimed_pins
    held,             \* the driver: the handle each line is claimed under, 0 when free
    opened,           \* the driver: the chip handles that are open
    hung,             \* the sampler has entered a read of a line that does not return
    joinStart,        \* time close() began to wait for the sampler
    \* ---- history of close() (observation only) ----
    latest,           \* the object constructed last, 0 when none
    closes,           \* close() calls completed on each object
    joinWaited,       \* how long the latest join waited
    raised,           \* an exception has left close()
    freeCalls,        \* gpio_free calls that reached the driver, for each line
    strayFree,        \* a gpio_free reached the driver for a line not claimed under the handle
    driverFailed,     \* the driver has refused to free a line that was claimed under the handle
    sweep,            \* what the latest cleanup_all that found a chip reference left behind
    stopMark,         \* <<extracted, nLatch, spc>> when the stop flag of object 1 was set
    \* ---- OledUI fields (src/oled_ui.py, OledUI.__init__) ----
    screen,           \* self.screen: 0 Info, 1 Color, 2 Brightness, 3 Language, 4 Reset menu, 5 Confirm
    selection,        \* self.selection
    confirm_for,      \* self.confirm_for ("none" for None)
    hue,              \* self.hue, a double held as <<n, e>> (see HUE_K_LOW)
    user_pct,         \* self.user_pct
    lang_idx,         \* self._lang_idx
    btn_was_pressed,  \* self._btn_was_pressed
    debounce_age,     \* now - self._btn_debounce_time at the last frame, saturated
    change_age,       \* now - self._last_screen_change at the last frame, saturated
    activity_age,     \* now - self._last_activity at the last frame, saturated
    oled_sleeping,    \* self._oled_sleeping
    settings_dirty,   \* self._settings_dirty
    dirty_age,        \* now - self._last_setting_change at the last frame, saturated
    last_saved_hue,   \* self._last_saved_hue
    last_saved_brightness, \* self._last_saved_brightness
    last_saved_lang,  \* self._last_saved_lang, as an index into the language codes
    hasEncoder,       \* handle() is given an encoder (not None)
    scenario,         \* what this run offers the menu: the settings found at startup,
                      \* frame gaps, screens the knob is turned on, number of frames
                      \* that edit a setting
    \* ---- the last frame, as handle() saw and answered it (observation only) ----
    atScreen,         \* self.screen when the frame began
    atConfirm,        \* self.confirm_for when the frame began
    wasAsleep,        \* self._oled_sleeping when the frame began
    stepIn,           \* step read by the burst
    edge,             \* pressed_edge
    gateOpen,         \* the frame came more than the screen-change delay after the last change
    ret,              \* reset_action returned
    edits,            \* frames that changed a setting
    shown_age,        \* time since the screen last changed, or since startup, saturated
    shownFor,         \* shown_age as the frame began
    wrote,            \* what the frame did to the settings file: "none", "ok", "failed"
    nSaves,           \* saves that reached the settings file
    nRuns,            \* dirty runs begun: edits made while the settings were not dirty
    runEdits,         \* frames that edited a setting in the latest dirty run
    run_age,          \* time since the first edit of the latest dirty run, saturated
    edit_age,         \* while dirty: time since the latest edit, saturated
    savedAfter,       \* on a frame that saved: time since the latest edit, saturated
    nFailed,          \* writes that failed since the settings last became dirty (up to 2)
    rawBefore,        \* the burst of the frame before reported a press
    edge_age,         \* time since the last frame with a press edge, saturated
    edgeFor,          \* edge_age as the frame began
    turned,           \* a frame awake on the reset menu has had a nonzero step
    \* ---- the burst read (src/oled_ui.py, OledUI._read_inputs_safer) ----
    sample,           \* iterations of the sampling loop completed
    total_steps,      \* total_steps
    any_press,        \* any_press
    burst,            \* (observation only) what each steps() and pressed() call of the
                      \* burst did: <<returned, value>>, returned FALSE when it raised
    calls,            \* (observation only) <<steps() calls, pressed() calls>> made
    \* ---- the settings file user_settings.json and its writers ----
    settings_file,    \* what the file holds: <<"absent">>, <<"complete", n>> (the whole of
                      \* record n), <<"truncated", n>> (opened for record n, not all there)
    temp_file,        \* the same for user_settings.json.tmp
    writer,           \* the writer at work: "none", "ui" (OledUI._save_settings),
                      \* "main" (the language choice in main.py)
    wpc,              \* its position: "open", "dump", "replace"
    nWrites,          \* writes begun
    crashed,          \* the process has been killed or has lost power
    lastValid,        \* (observation only) the last complete record the file held
    \* ---- the knob itself ----
    lines,            \* the levels on the clk and dt lines, (clk<<1)|dt; NoLines where the
                      \* samples are drawn freely or from the script
    heldMoves,        \* (observation only) signed transitions the knob made while the
                      \* sampler was waiting for the release
    freeMoves,        \* (observation only) signed transitions it made at other times
    nMoves            \* (observation only) transitions it made

quadVars == <<ppr, active_low, state, accum, steps, locked, det, tmp>>
btnVars  == <<press_latch, btn_last, btn_last_change, wake>>
thrVars  == <<spc, next_t, cpc, s>>
envVars  == <<now, sw, knob, horizon, script>>
quadHist == <<extracted, returned, drained, prevRet, quiet, wasQuiet, transSum, dirs, pos, accum0>>
btnHist  == <<nPress, pressAt, heldFor, nLatch, nTrue, unseen, overrun>>
errVars  == <<consecutive_errors, failing, erred, errIters, afterStop>>
lineVars == <<pins, chip, claimed_pins, held, opened>>
lineHist == <<latest, closes, joinWaited, raised, freeCalls, strayFree, driverFailed, sweep>>
lifeVars == <<stop, phase, hung, joinStart, lineVars, lineHist, stopMark>>
encVars  == <<quadVars, btnVars, thrVars, envVars, quadHist, btnHist, errVars, lifeVars, alive>>
uiVars   == <<screen, selection, confirm_for, hue, user_pct, lang_idx, btn_was_pressed,
              debounce_age, change_age, activity_age, oled_sleeping, settings_dirty,
              dirty_age, last_saved_hue, last_saved_brightness, last_saved_lang, hasEncoder,
              scenario>>
saveHist == <<nSaves, nRuns, runEdits, run_age, edit_age, savedAfter, nFailed>>
edgeHist == <<rawBefore, edge_age, edgeFor>>
turnHist == <<turned>>
uiHist   == <<atScreen, atConfirm, wasAsleep, stepIn, edge, gateOpen, ret, edits,
              shown_age, shownFor, wrote, saveHist, edgeHist, turnHist>>
burstVars == <<sample, total_steps, any_press, burst, calls>>
fileVars == <<settings_file, temp_file, writer, wpc, nWrites, crashed, lastValid>>
holdVars == <<lines, heldMoves, freeMoves, nMoves>>
sideVars == <<burstVars, fileVars, holdVars>>
vars     == <<encVars, uiVars, uiHist, sideVars>>

(***************************************************************************)
(* Bounds of the model.                                                    *)
(***************************************************************************)
MaxTime    == 11      \* button runs are explored up to this time (poll intervals)
MaxPolls   == 6       \* knob runs are explored up to this time (poll intervals)
MaxPresses == 2       \* physical presses of the button in one run
MaxScript  == 4       \* longest scripted turn of the knob (moves one way)
MaxFaultTime == 14    \* runs with failing reads are explored up to this time
MaxHoldTime  == 9     \* runs with the knob turned under a held button are explored up to this time
MaxMoves     == 3     \* transitions of the knob in such a run
MaxStubTime  == 9     \* runs on stub lines are explored up to this time
MaxStopTime  == 9     \* runs that end in close() are explored up to this time
StopMargin   == 3     \* close() is first called no later than this before the end of a run
MaxInstances == 3     \* Encoder objects constructed in one run
MaxCloses    == 2     \* close() calls on one Encoder object
MaxWrites    == 4     \* writes of the settings file in one run

(***************************************************************************)
(* Program constants.                                                      *)
(***************************************************************************)
POLL_MS         == 1      \* OTPI_ENC_POLL_MS default: one poll interval, the unit of time
BTN_DEBOUNCE_MS == 5      \* OTPI_ENC_BTN_DEBOUNCE_MS default
\* OTPI_ENC_BTN_ACTIVE_LOW, read from the environment at import
BTN_ACTIVE_LOW  == active_low
MAX_ERRORS      == 10     \* max_errors of _poll_loop
JOIN_TIMEOUT_MS == 1000   \* self._t.join(timeout=1.0)
STUB_LEVEL      == 1      \* _PinBase.read(): the level every stub line reports
PprValues       == {1, 2, 4}
NoLines         == 4      \* stands for clk and dt lines that are not followed

\* The Encoder objects of a run, and the lines of an Encoder (clk, dt and the button)
Instances == 1..MaxInstances
Lines == {"clk", "dt", "sw"}

\* self._tbl, indexed from 1
Tbl == <<0, -1, 1, 0,   1, 0, 0, -1,   -1, 0, 0, 1,   0, 1, -1, 0>>

\* Variant: floor division, as x // p would compute
FloorDiv(x, p) == x \div p

\* int(x / p): true division, then truncation toward zero
TruncDiv(x, p) == IF x >= 0 THEN x \div p ELSE -((-x) \div p)

\* Variant: every valid transition counts double
DeltaTwice(prev, new) == 2 * Tbl[((prev * 4 + new) % 16) + 1]

\* idx = ((self._state << 2) | s) & 0xF ; delta = self._tbl[idx]
Delta(prev, new) == Tbl[((prev * 4 + new) % 16) + 1]

\* active = (lvl == 0) if BTN_ACTIVE_LOW else (lvl == 1)
Active(lvl) == IF BTN_ACTIVE_LOW THEN lvl = 0 ELSE lvl = 1

\* (lvl2 == 1) if BTN_ACTIVE_LOW else (lvl2 == 0)
Released(lvl) == IF BTN_ACTIVE_LOW THEN lvl = 1 ELSE lvl = 0

\* Variant: the lock excludes nobody
NeverBlocked == TRUE

\* with self._lock: may be entered
CanAcquire == ~locked

\* self._ok: set when __init__ has started the sampler (line 177), cleared only when
\* __init__ fails (line 183); _poll_loop never writes it
ok == TRUE

\* Variant: the level is compared against the poll interval, not the debounce window
DebouncedByPoll(since) == (now - since) >= POLL_MS

\* (now - self._btn_last_change) >= BTN_DEBOUNCE_S
Debounced(since) == (now - since) >= BTN_DEBOUNCE_MS

(***************************************************************************)
(* Observation of the lines, independent of the decode table: the four     *)
(* quadrature states in rotation order, and the direction of a move        *)
(* between neighbours.  Anything else (no change, a jump of two) is not a  *)
(* Gray-code-adjacent transition.                                          *)
(***************************************************************************)
GrayPos(q) == CASE q = 0 -> 0 [] q = 2 -> 1 [] q = 3 -> 2 [] q = 1 -> 3

GrayDir(prev, new) ==
    LET d == (GrayPos(new) - GrayPos(prev)) % 4
    IN  IF d = 1 THEN 1 ELSE IF d = 3 THEN -1 ELSE 0

\* The quadrature state next to q in direction d
Neighbour(q, d) == CHOOSE n \in 0..3 : GrayPos(n) = (GrayPos(q) + d) % 4

\* The i-th move of the script: the turn, then the same turn in the other direction
ScriptDir(i) == IF i <= Len(script) THEN script[i] ELSE -script[i - Len(script)]

Scripted == script # <<>> /\ pos < 2 * Len(script)

\* What the clk and dt lines can show at the next sample
Offered ==
    IF lines # NoLines THEN {lines}
    ELSE IF ~knob THEN {state}
    ELSE IF script = <<>> THEN 0..3
    ELSE IF Scripted THEN {Neighbour(state, ScriptDir(pos + 1))}
    ELSE {state}

(***************************************************************************)
(* Sampler thread: Encoder._poll_loop                                      *)
(***************************************************************************)
\* lines 246-251: next_t += POLL_S; sleep to it, or resync when it was missed
EndIteration ==
    LET nt == next_t + POLL_MS
    IN  IF nt - now > 0
        THEN next_t' = nt  /\ spc' = "sleep"
        ELSE next_t' = now /\ spc' = "quad"

\* Variant: the poll loop does not look at the stop flag
LoopRunsForever == TRUE

\* line 191: while not self._stop  (the sampler modelled step by step is object 1)
LoopRuns == ~stop[1]

\* Variant: the wait for release does not look at the stop flag
WaitRunsForever == TRUE

\* line 233: while not self._stop
WaitRuns == ~stop[1]

\* line 191: the loop condition fails and the thread ends
PollExit ==
    /\ spc = "quad"
    /\ ~LoopRuns
    /\ spc' = "stopped"
    /\ alive' = [alive EXCEPT ![1] = FALSE]
    /\ UNCHANGED <<uiVars, uiHist, sideVars, lifeVars, errVars, quadVars, btnVars, next_t, cpc, s,
                   envVars, quadHist, btnHist>>

\* lines 213-217: a read of clk or dt raises
PollQuadratureFails ==
    /\ spc = "quad"
    /\ LoopRuns
    /\ ~hung
    /\ failing \in {"quad", "both"}
    /\ consecutive_errors' = consecutive_errors + 1
    /\ errIters' = IF erred THEN errIters + 1 ELSE 0
    /\ erred' = TRUE
    /\ spc' = IF consecutive_errors' > MAX_ERRORS THEN "stopped" ELSE "btn"
    /\ alive' = IF consecutive_errors' > MAX_ERRORS THEN [alive EXCEPT ![1] = FALSE] ELSE alive
    /\ UNCHANGED <<uiVars, uiHist, sideVars, lifeVars, failing, afterStop, quadVars, btnVars, next_t, cpc, s,
                   envVars, quadHist, btnHist>>

\* lines 194-211: sample clk and dt, decode, convert transitions to detents; the reads
\* went through, so the error counter is reset
PollQuadrature ==
    /\ spc = "quad"
    /\ LoopRuns
    /\ ~hung
    /\ failing \notin {"quad", "both"}
    /\ consecutive_errors' = 0
    /\ errIters' = IF erred THEN errIters + 1 ELSE 0
    /\ erred' = FALSE
    /\ \E a \in {0, 1}, b \in {0, 1} :
         LET new   == a * 2 + b
             delta == Delta(state, new)
             acc1  == IF delta # 0 THEN accum + delta ELSE accum
             d     == IF delta # 0 THEN TruncDiv(acc1, ppr) ELSE 0
         IN  /\ new \in Offered
             /\ state' = new
             /\ accum' = acc1
             /\ det' = d
             /\ spc' = IF d # 0 THEN "lock" ELSE "btn"
             /\ transSum' = transSum + GrayDir(state, new)
             /\ dirs' = dirs \cup ({GrayDir(state, new)} \ {0})
             /\ quiet' = (quiet /\ delta = 0)
             /\ pos' = IF Scripted THEN pos + 1 ELSE pos
    /\ UNCHANGED <<uiVars, uiHist, sideVars, lifeVars, alive, failing, afterStop, ppr, active_low, steps, locked, tmp, btnVars, next_t,
                   cpc, s, envVars, extracted, returned, drained, prevRet, wasQuiet, accum0,
                   btnHist>>

\* lines 206-207: with self._lock, the load of  self._steps += det
AddStepsLoad ==
    /\ spc = "lock"
    /\ CanAcquire
    /\ locked' = TRUE
    /\ tmp' = steps
    /\ spc' = "store"
    /\ UNCHANGED <<uiVars, uiHist, sideVars, lifeVars, alive, errVars, ppr, active_low, state, accum, steps, det, btnVars, next_t, cpc, s, envVars,
                   quadHist, btnHist>>

\* Variant: the extracted detents are not taken out of the accumulator
AddStepsStoreKeepsAccum ==
    /\ spc = "store"
    /\ steps' = tmp + det
    /\ locked' = FALSE
    /\ extracted' = extracted + det
    /\ det' = 0
    /\ tmp' = 0
    /\ spc' = "btn"
    /\ UNCHANGED <<uiVars, uiHist, sideVars, lifeVars, alive, errVars, ppr, active_low, state, accum, btnVars, next_t, cpc, s, envVars,
                   returned, drained, prevRet, quiet, wasQuiet, transSum, dirs, pos, accum0,
                   btnHist>>

\* lines 207-208: the store of  self._steps += det, release, accum -= det * PPR
AddStepsStore ==
    /\ spc = "store"
    /\ steps' = tmp + det
    /\ locked' = FALSE
    /\ accum' = accum - det * ppr
    /\ extracted' = extracted + det
    /\ det' = 0
    /\ tmp' = 0
    /\ spc' = "btn"
    /\ UNCHANGED <<uiVars, uiHist, sideVars, lifeVars, alive, errVars, ppr, active_low, state, btnVars, next_t, cpc, s, envVars,
                   returned, drained, prevRet, quiet, wasQuiet, transSum, dirs, pos, accum0,
                   btnHist>>

\* Variant: no wait for release, the iteration just ends
AfterLatchNoWait ==
    /\ EndIteration
    /\ UNCHANGED wake

\* lines 232-233: after latching, enter the wait for release
AfterLatch ==
    /\ spc' = "wait"
    /\ wake' = now
    /\ UNCHANGED next_t

\* A read of the button line raised, lines 240-243
ButtonError ==
    /\ consecutive_errors' = consecutive_errors + 1
    /\ erred' = TRUE
    /\ IF consecutive_errors' > MAX_ERRORS
       THEN spc' = "stopped" /\ alive' = [alive EXCEPT ![1] = FALSE] /\ UNCHANGED next_t
       ELSE EndIteration /\ UNCHANGED alive
    /\ UNCHANGED <<failing, errIters, afterStop>>

\* line 222 and lines 240-243: the read of the button line raises
PollButtonFails ==
    /\ spc = "btn"
    /\ ~hung
    /\ failing \in {"btn", "both"}
    /\ ButtonError
    /\ UNCHANGED <<uiVars, uiHist, sideVars, lifeVars, quadVars, btnVars, cpc, s, envVars, quadHist, btnHist>>

\* line 234 and lines 240-243: the read in the wait for release raises, and the wait
\* is left
WaitReleaseFails ==
    /\ spc = "wait"
    /\ now >= wake
    /\ WaitRuns
    /\ ~hung
    /\ failing \in {"btn", "both"}
    /\ ButtonError
    /\ wake' = 0
    /\ UNCHANGED <<uiVars, uiHist, sideVars, lifeVars, quadVars, press_latch, btn_last, btn_last_change, cpc, s,
                   envVars, quadHist, btnHist>>

\* lines 220-231: the debounced button latch
PollButton ==
    /\ spc = "btn"
    /\ ~hung
    /\ failing \notin {"btn", "both"}
    /\ LET lvl == sw
       IN  IF lvl # btn_last
           THEN /\ btn_last' = lvl
                /\ btn_last_change' = now
                /\ EndIteration
                /\ UNCHANGED <<press_latch, wake, nLatch, unseen, overrun>>
           ELSE IF Active(lvl) /\ Debounced(btn_last_change)
                THEN /\ press_latch' = TRUE
                     /\ AfterLatch
                     /\ nLatch' = nLatch + 1
                     /\ unseen' = TRUE
                     /\ overrun' = (overrun \/ press_latch \/ cpc = "clear")
                     /\ UNCHANGED <<btn_last, btn_last_change>>
                ELSE /\ EndIteration
                     /\ UNCHANGED <<btnVars, nLatch, unseen, overrun>>
    /\ UNCHANGED <<uiVars, uiHist, sideVars, lifeVars, alive, errVars, quadVars, cpc, s, envVars, quadHist, nPress, pressAt, heldFor, nTrue>>

\* Variant: on the release the remembered quadrature state is brought up to date
WaitReleaseResyncs ==
    /\ spc = "wait"
    /\ now >= wake
    /\ WaitRuns
    /\ ~hung
    /\ failing \notin {"btn", "both"}
    /\ LET lvl2 == sw
       IN  IF Released(lvl2)
           THEN /\ btn_last' = lvl2
                /\ btn_last_change' = now
                /\ wake' = 0
                /\ state' = (IF lines # NoLines THEN lines ELSE state)
                /\ EndIteration
           ELSE /\ wake' = now + POLL_MS
                /\ UNCHANGED <<btn_last, btn_last_change, spc, next_t, state>>
    /\ UNCHANGED <<uiVars, uiHist, sideVars, lifeVars, alive, errVars, ppr, active_low, accum, steps,
                   locked, det, tmp, press_latch, cpc, s, envVars, quadHist, btnHist>>

\* lines 233-239: wait for release before latching again
WaitRelease ==
    /\ spc = "wait"
    /\ now >= wake
    /\ WaitRuns
    /\ ~hung
    /\ failing \notin {"btn", "both"}
    /\ LET lvl2 == sw
       IN  IF Released(lvl2)
           THEN /\ btn_last' = lvl2
                /\ btn_last_change' = now
                /\ wake' = 0
                /\ EndIteration
           ELSE /\ wake' = now + POLL_MS
                /\ UNCHANGED <<btn_last, btn_last_change, spc, next_t>>
    /\ UNCHANGED <<uiVars, uiHist, sideVars, lifeVars, alive, errVars, quadVars, press_latch, cpc, s, envVars, quadHist, btnHist>>

\* line 233, then lines 246-251: the wait for release finds the stop flag set and is
\* left with the button still held
WaitStopped ==
    /\ spc = "wait"
    /\ now >= wake
    /\ ~WaitRuns
    /\ wake' = 0
    /\ EndIteration
    /\ UNCHANGED <<uiVars, uiHist, sideVars, lifeVars, alive, errVars, quadVars, press_latch, btn_last,
                   btn_last_change, cpc, s, envVars, quadHist, btnHist>>

\* lines 247-249: the sleep to the next poll ends
PollSleep ==
    /\ spc = "sleep"
    /\ now >= next_t
    /\ spc' = "quad"
    /\ UNCHANGED <<uiVars, uiHist, sideVars, lifeVars, alive, errVars, quadVars, btnVars, next_t, cpc, s, envVars, quadHist, btnHist>>

(***************************************************************************)
(* Consumer: Encoder.steps and Encoder.pressed                             *)
(***************************************************************************)
\* lines 256-257: with self._lock: s = self._steps
StepsRead ==
    /\ cpc = "idle"
    /\ ok
    /\ CanAcquire
    /\ afterStop' = IF spc = "stopped" /\ steps # 0 THEN "steps" ELSE afterStop
    /\ locked' = TRUE
    /\ s' = steps
    /\ cpc' = "zero"
    /\ wasQuiet' = (quiet /\ drained)
    /\ quiet' = (spc \notin {"lock", "store"})
    /\ UNCHANGED <<uiVars, uiHist, sideVars, lifeVars, alive, consecutive_errors, failing, erred, errIters, ppr, active_low, state,
                   accum, steps, det, tmp, btnVars, spc, next_t, envVars,
                   extracted, returned, drained, prevRet, transSum, dirs, pos, accum0, btnHist>>

\* Variant: the counter is read but not reset
StepsZeroKeeps ==
    /\ cpc = "zero"
    /\ locked' = FALSE
    /\ cpc' = "idle"
    /\ returned' = returned + s
    /\ drained' = TRUE
    /\ prevRet' = s
    /\ s' = 0
    /\ UNCHANGED <<uiVars, uiHist, sideVars, lifeVars, alive, errVars, ppr, active_low, state, accum, steps, det, tmp, btnVars, spc, next_t, envVars,
                   extracted, quiet, wasQuiet, transSum, dirs, pos, accum0, btnHist>>

\* lines 258-259: self._steps = 0, release, return s
StepsZero ==
    /\ cpc = "zero"
    /\ steps' = 0
    /\ locked' = FALSE
    /\ cpc' = "idle"
    /\ returned' = returned + s
    /\ drained' = TRUE
    /\ prevRet' = s
    /\ s' = 0
    /\ UNCHANGED <<uiVars, uiHist, sideVars, lifeVars, alive, errVars, ppr, active_low, state, accum, det, tmp, btnVars, spc, next_t, envVars,
                   extracted, quiet, wasQuiet, transSum, dirs, pos, accum0, btnHist>>

\* line 263: if self._press_latch  (else line 266: return False)
PressedRead ==
    /\ cpc = "idle"
    /\ ok
    /\ IF press_latch
       THEN cpc' = "clear" /\ unseen' = FALSE
       ELSE UNCHANGED <<cpc, unseen>>
    /\ afterStop' = IF spc = "stopped" /\ press_latch THEN "press" ELSE afterStop
    /\ UNCHANGED <<uiVars, uiHist, sideVars, lifeVars, alive, consecutive_errors, failing, erred, errIters, quadVars, btnVars, spc, next_t, s, envVars, quadHist,
                   nPress, pressAt, heldFor, nLatch, nTrue, overrun>>

\* Variant: True is returned but the latch is left set
PressedClearKeeps ==
    /\ cpc = "clear"
    /\ nTrue' = nTrue + 1
    /\ cpc' = "idle"
    /\ UNCHANGED <<uiVars, uiHist, sideVars, lifeVars, alive, errVars, quadVars, btnVars, spc, next_t, s, envVars,
                   quadHist, nPress, pressAt, heldFor, nLatch, unseen, overrun>>

\* lines 264-265: self._press_latch = False; return True
PressedClear ==
    /\ cpc = "clear"
    /\ press_latch' = FALSE
    /\ nTrue' = nTrue + 1
    /\ cpc' = "idle"
    /\ UNCHANGED <<uiVars, uiHist, sideVars, lifeVars, alive, errVars, quadVars, btn_last, btn_last_change, wake, spc, next_t, s, envVars,
                   quadHist, nPress, pressAt, heldFor, nLatch, unseen, overrun>>

(***************************************************************************)
(* Environment: the button and the clock                                   *)
(***************************************************************************)
ActiveLevel   == IF BTN_ACTIVE_LOW THEN 0 ELSE 1
ReleasedLevel == IF BTN_ACTIVE_LOW THEN 1 ELSE 0

\* The knob moves by one transition in direction d.  Outside the wait for release it
\* moves between two iterations of the sampler, once the move before has been sampled
KnobTurns ==
    /\ lines # NoLines
    /\ nMoves < MaxMoves
    /\ spc = "wait" \/ (spc = "sleep" /\ lines = state)
    /\ \E d \in {1, -1} :
         /\ lines' = Neighbour(lines, d)
         /\ heldMoves' = IF spc = "wait" THEN heldMoves + d ELSE heldMoves
         /\ freeMoves' = IF spc = "wait" THEN freeMoves ELSE freeMoves + d
    /\ nMoves' = nMoves + 1
    /\ UNCHANGED <<encVars, uiVars, uiHist, burstVars, fileVars>>

Press ==
    /\ Released(sw)
    /\ nPress < MaxPresses
    /\ sw' = ActiveLevel
    /\ nPress' = nPress + 1
    /\ pressAt' = now
    /\ heldFor' = 0
    /\ UNCHANGED <<uiVars, uiHist, sideVars, lifeVars, alive, errVars, quadVars, btnVars, thrVars, now, knob, horizon, script, quadHist,
                   nLatch, nTrue, unseen, overrun>>

Release ==
    /\ Active(sw)
    /\ sw' = ReleasedLevel
    /\ heldFor' = now - pressAt
    /\ UNCHANGED <<uiVars, uiHist, sideVars, lifeVars, alive, errVars, quadVars, btnVars, thrVars, now, knob, horizon, script, quadHist,
                   nPress, pressAt, nLatch, nTrue, unseen, overrun>>

\* The sampler keeps its cadence: time passes only while it sleeps.
SamplerAsleep ==
    \/ spc = "sleep" /\ next_t > now
    \/ spc = "wait" /\ wake > now
    \/ spc = "stopped"
    \/ hung

\* Reads of the quadrature lines, of the button line, or of both begin to raise, and
\* go on raising; it shows when the sampler is about to read
LinesFail ==
    /\ failing = "none"
    /\ spc \in {"quad", "btn", "wait"}
    /\ failing' \in {"quad", "btn", "both"}
    /\ UNCHANGED <<uiVars, uiHist, sideVars, lifeVars, alive, consecutive_errors, erred, errIters, afterStop, quadVars,
                   btnVars, thrVars, envVars, quadHist, btnHist>>

\* A run is followed until close() has returned
Tick ==
    /\ now < horizon
    /\ SamplerAsleep
    /\ \A i \in Instances : closes[i] = 0
    /\ now' = now + 1
    /\ UNCHANGED <<uiVars, uiHist, sideVars, lifeVars, alive, errVars, quadVars, btnVars, thrVars, sw, knob, horizon, script, quadHist, btnHist>>

(***************************************************************************)
(* Encoder objects and the GPIO lines: _LgpioPin, Encoder.__init__,        *)
(* Encoder._cleanup, Encoder.close                                         *)
(*                                                                         *)
(* Objects are constructed and closed by the one application thread, so a  *)
(* construction or a close() begins only when no close() is in progress.   *)
(* The sampler followed step by step above is the thread of object 1; the  *)
(* threads of the other objects are only known to be alive or ended.       *)
(***************************************************************************)
\* _LgpioPin has no class attribute _lg: line 34 sets self._lg on each instance only,
\* so cls._lg in cleanup_all (lines 79 and 86) raises AttributeError
ClassHasLg == FALSE

\* lines 77-88 of cleanup_all: the registry afterwards
CleanupAllRegistry(c, reg) == IF c # 0 THEN {} ELSE reg

\* lines 77-82 of cleanup_all: the driver afterwards; each gpio_free is inside a try
CleanupAllHeld(c, reg, h) ==
    IF c # 0 /\ ClassHasLg
    THEN [l \in Lines |-> IF l \in reg /\ h[l] = c THEN 0 ELSE h[l]]
    ELSE h

\* lines 84-88 of cleanup_all: the driver's open handles afterwards; gpiochip_close is
\* inside a try
CleanupAllOpened(c, o) == IF c # 0 /\ ClassHasLg THEN o \ {c} ELSE o

\* No cleanup_all has found a chip reference yet
NoSweep == [ran |-> FALSE, lines |-> {}, handle |-> 0, reg |-> {}, ref |-> 0]

\* What a cleanup_all entered with chip reference c, registry reg, driver claims h and
\* open handles o leaves when it returns: the registry lines still claimed at the
\* driver, the handle still open there, the registry and the chip reference
SweepOf(c, reg, h, o) ==
    IF c = 0 THEN sweep
    ELSE [ran    |-> TRUE,
          lines  |-> {l \in reg : CleanupAllHeld(c, reg, h)[l] # 0},
          handle |-> IF c \in CleanupAllOpened(c, o) THEN c ELSE 0,
          reg    |-> CleanupAllRegistry(c, reg),
          ref    |-> 0]

\* Variant: cleanup_all lets the exception of cls._lg out
CleanupAllUncaught(c) == c # 0 /\ ~ClassHasLg

\* lines 77-88 of cleanup_all: whether an exception leaves it
CleanupAllRaises(c) == FALSE

\* The application thread is inside a close()
Busy == \E i \in Instances : phase[i] \in {"stopping", "joined"}

\* Encoder.__init__, lines 137-177: cleanup_all, then a pin for each line from _make_pin
\* (an _LgpioPin when the line is neither in the registry nor claimed at the driver;
\* a line that is busy is refused to every backend and gets the _DummyPin), then the
\* sampler thread is started
Construct(i) ==
    /\ phase[i] = "absent"
    /\ ~Busy
    /\ LET reg0  == CleanupAllRegistry(chip, claimed_pins)
           held0 == CleanupAllHeld(chip, claimed_pins, held)
           got   == {l \in Lines : l \notin reg0 /\ held0[l] = 0}
       IN  /\ pins' = [pins EXCEPT ![i] = [l \in Lines |-> IF l \in got THEN "lgpio" ELSE "dummy"]]
           /\ chip' = i
           /\ claimed_pins' = reg0 \cup got
           /\ held' = [l \in Lines |-> IF l \in got THEN i ELSE held0[l]]
           /\ opened' = CleanupAllOpened(chip, opened) \cup {i}
           /\ sweep' = SweepOf(chip, claimed_pins, held, opened)
    /\ stop' = [stop EXCEPT ![i] = FALSE]
    /\ alive' = [alive EXCEPT ![i] = TRUE]
    /\ phase' = [phase EXCEPT ![i] = "running"]
    /\ latest' = i
    /\ UNCHANGED <<uiVars, uiHist, sideVars, quadVars, btnVars, thrVars, envVars, quadHist, btnHist,
                   errVars, hung, joinStart, closes, joinWaited, raised, freeCalls, strayFree,
                   driverFailed, stopMark>>

\* _cleanup, line 270: self._stop = True
CloseBegin(i) ==
    /\ phase[i] \in {"running", "closed"}
    /\ ~Busy
    /\ closes[i] < MaxCloses
    /\ stop[i] \/ now + StopMargin <= horizon
    /\ stop' = [stop EXCEPT ![i] = TRUE]
    /\ phase' = [phase EXCEPT ![i] = "stopping"]
    /\ joinStart' = now
    /\ stopMark' = IF i = 1 /\ ~stop[1] THEN <<extracted, nLatch, spc>> ELSE stopMark
    /\ UNCHANGED <<uiVars, uiHist, sideVars, quadVars, btnVars, thrVars, envVars, quadHist, btnHist,
                   errVars, alive, hung, lineVars, lineHist>>

\* _cleanup, lines 271-275: join the sampler for at most the timeout.  The join returns
\* when the thread has ended; a thread stuck in a read is waited for until the timeout
CloseJoin(i) ==
    /\ phase[i] = "stopping"
    /\ IF alive[i]
       THEN /\ i = 1 /\ hung
            /\ now' = joinStart + JOIN_TIMEOUT_MS
            /\ joinWaited' = now' - joinStart
       ELSE /\ joinWaited' = now - joinStart
            /\ UNCHANGED now
    /\ phase' = [phase EXCEPT ![i] = "joined"]
    /\ joinStart' = 0
    /\ UNCHANGED <<uiVars, uiHist, sideVars, quadVars, btnVars, thrVars, sw, knob, horizon, script,
                   quadHist, btnHist, errVars, alive, stop, hung, lineVars,
                   latest, closes, raised, freeCalls, strayFree, driverFailed, sweep, stopMark>>

\* _LgpioPin.close, lines 64-65: the pin is an _LgpioPin and its line is in the registry,
\* so gpio_free is called on the current chip handle
Freeable(i, l) == pins[i][l] = "lgpio" /\ l \in claimed_pins

\* gpio_free succeeds on a line that is claimed under the handle it is given
FreeSucceeds(l, driverOk) == driverOk /\ chip # 0 /\ held[l] = chip

\* _cleanup, lines 277-289: close() of the three pins, each inside a try (_LgpioPin.close,
\* lines 62-70: the line leaves the registry only when gpio_free went through), then
\* cleanup_all
CloseRelease(i) ==
    /\ phase[i] = "joined"
    /\ \E driverOk \in BOOLEAN :
         LET freed == {l \in Lines : Freeable(i, l) /\ FreeSucceeds(l, driverOk)}
             held1 == [l \in Lines |-> IF l \in freed THEN 0 ELSE held[l]]
             reg1  == claimed_pins \ freed
         IN  /\ driverOk \/ \E l \in Lines : Freeable(i, l) /\ chip # 0 /\ held[l] = chip
             /\ held' = CleanupAllHeld(chip, reg1, held1)
             /\ claimed_pins' = CleanupAllRegistry(chip, reg1)
             /\ chip' = 0
             /\ opened' = CleanupAllOpened(chip, opened)
             /\ sweep' = SweepOf(chip, reg1, held1, opened)
             /\ freeCalls' = [freeCalls EXCEPT ![i] =
                                [l \in Lines |-> IF Freeable(i, l) THEN @[l] + 1 ELSE @[l]]]
             /\ strayFree' = (strayFree \/ \E l \in Lines :
                                             Freeable(i, l) /\ (chip = 0 \/ held[l] # chip))
             /\ driverFailed' = (driverFailed \/ ~driverOk)
    /\ raised' = (raised \/ CleanupAllRaises(chip))
    /\ closes' = [closes EXCEPT ![i] = @ + 1]
    /\ phase' = [phase EXCEPT ![i] = "closed"]
    /\ UNCHANGED <<uiVars, uiHist, sideVars, quadVars, btnVars, thrVars, envVars, quadHist, btnHist,
                   errVars, alive, stop, hung, joinStart, pins, latest, joinWaited, stopMark>>

\* The sampler of an object other than object 1 finds the stop flag set and ends
ThreadExits(i) ==
    /\ i # 1
    /\ alive[i]
    /\ stop[i]
    /\ alive' = [alive EXCEPT ![i] = FALSE]
    /\ UNCHANGED <<uiVars, uiHist, sideVars, quadVars, btnVars, thrVars, envVars, quadHist, btnHist,
                   errVars, lifeVars>>

\* A read of a line is entered and does not return
LineHangs ==
    /\ ~hung
    /\ alive[1]
    /\ spc \in {"quad", "btn", "wait"}
    /\ hung' = TRUE
    /\ UNCHANGED <<uiVars, uiHist, sideVars, quadVars, btnVars, thrVars, envVars, quadHist, btnHist,
                   errVars, alive, stop, phase, joinStart, lineVars, lineHist, stopMark>>

\* Object 1 has been constructed on free lines and its sampler runs
LifeRunning ==
    /\ stop = [i \in Instances |-> FALSE]
    /\ alive = [i \in Instances |-> i = 1]
    /\ phase = [i \in Instances |-> IF i = 1 THEN "running" ELSE "absent"]
    /\ pins = [i \in Instances |-> [l \in Lines |-> IF i = 1 THEN "lgpio" ELSE "none"]]
    /\ chip = 1
    /\ claimed_pins = Lines
    /\ held = [l \in Lines |-> 1]
    /\ opened = {1}
    /\ hung = FALSE
    /\ joinStart = 0
    /\ latest = 1
    /\ closes = [i \in Instances |-> 0]
    /\ joinWaited = 0
    /\ raised = FALSE
    /\ freeCalls = [i \in Instances |-> [l \in Lines |-> 0]]
    /\ strayFree = FALSE
    /\ driverFailed = FALSE
    /\ sweep = NoSweep
    /\ stopMark = <<0, 0, "none">>

\* No Encoder object has been constructed yet (class attributes of _LgpioPin, lines 27-29)
LifeNone ==
    /\ stop = [i \in Instances |-> FALSE]
    /\ alive = [i \in Instances |-> FALSE]
    /\ phase = [i \in Instances |-> "absent"]
    /\ pins = [i \in Instances |-> [l \in Lines |-> "none"]]
    /\ chip = 0
    /\ claimed_pins = {}
    /\ held = [l \in Lines |-> 0]
    /\ opened = {}
    /\ hung = FALSE
    /\ joinStart = 0
    /\ latest = 0
    /\ closes = [i \in Instances |-> 0]
    /\ joinWaited = 0
    /\ raised = FALSE
    /\ freeCalls = [i \in Instances |-> [l \in Lines |-> 0]]
    /\ strayFree = FALSE
    /\ driverFailed = FALSE
    /\ sweep = NoSweep
    /\ stopMark = <<0, 0, "none">>


(***************************************************************************)
(* The menu: OledUI (src/oled_ui.py)                                       *)
(*                                                                         *)
(* Time is in tenths of a second.  handle() only ever compares a timestamp *)
(* with the current time, so each timestamp is kept as its age, now minus  *)
(* the timestamp, saturated just above the delay it is compared with.      *)
(***************************************************************************)
MaxEdits == 1         \* frames of one run that change a setting
ResetGap == 3         \* time between the frames of a run that goes straight to a reset
MaxQuick == 4         \* frames follow each other closely for this long, then after a long gap
MaxSaveEdits == 2     \* frames that change the colour when saving is examined
MaxHueEdits == 3      \* frames that change the colour when its range is examined

BTN_EDGE_DEBOUNCE   == 1      \* 0.1 s between accepted press edges
SCREEN_CHANGE_DELAY == 2      \* screen_change_delay, 0.2 s
SETTINGS_SAVE_DELAY == 20     \* 2.0 s
OLED_SLEEP_SECS     == 100    \* 10 s
HUE_UNITS           == 100    \* hue is taken modulo 1.0, one detent is 0.01
HUE_K_LOW           == 123    \* the double 0.01 is K * 2^-59, K = 5764607523034235;
                              \* K mod 256
NUM_LANGUAGES       == 10     \* len(self._lang_codes): the languages of OLED_LANGUAGES

\* ResetAction, and the list the reset menu indexes with selection - 1
ResetActions == <<"wifi", "qr", "both">>

\* Time a frame can come after the one before: the frame period of the main loop
\* (inside the debounce and screen-change delays), the save delay, the sleep delay
FrameGaps == {1, SETTINGS_SAVE_DELAY, OLED_SLEEP_SECS}

\* What the burst read hands a frame as step: nothing, or a detent either way
StepValues == {-1, 0, 1}

\* (hue, brightness, language) found in the settings file or given as defaults: the
\* hue at its wrap-around, the brightness at its upper limit, the last language.
\* The language is its index in the list of codes, NUM_LANGUAGES for a code not in it.
LoadedSettings == {<<<<0, 0>>, 100, NUM_LANGUAGES - 1>>}

\* Settings files that were edited by hand or written by another version: the double
\* 0.03 (3K - 1 units) with a brightness below the range and an unknown language code;
\* the double 1.5 (150K - 18 units) with a brightness above the range
UnusualSettings == {<<<<3, -1>>, -5, NUM_LANGUAGES>>, <<<<150, -18>>, 250, 0>>}

(***************************************************************************)
(* The hue is a Python float.  Every value it takes here is a multiple of  *)
(* 2^-59 in [-1, 2] and is held as <<n, e>>, standing for                   *)
(* (n*K + e) * 2^-59, where K * 2^-59 is the double 0.01 and e stays small: *)
(* sums are exact in n and e, and rounding to 53 significant bits (nearest, *)
(* ties to even) needs only the low bits of n*K + e and its binade.         *)
(***************************************************************************)
\* 1.0 = 2^59 * 2^-59, and 2^59 = 100*K - 12
One == <<HUE_UNITS, -12>>

\* x < 0.0
Neg(x) == x[1] < 0 \/ (x[1] = 0 /\ x[2] < 0)

\* x < y
Less(x, y) == x[1] < y[1] \/ (x[1] = y[1] /\ x[2] < y[2])

\* n*K + e >= 2^p for x >= 0 and p in 53..60: 2^53 .. 2^56 lie between multiples of K
\* (1.5625 K, 3.125 K, 6.25 K, 12.5 K), 2^57 = 25K - 3, ..., 2^60 = 200K - 24
AtLeastPow(x, p) ==
    CASE p = 53 -> x[1] >= 2
      [] p = 54 -> x[1] >= 4
      [] p = 55 -> x[1] >= 7
      [] p = 56 -> x[1] >= 13
      [] p = 57 -> ~Less(x, <<25, -3>>)
      [] p = 58 -> ~Less(x, <<50, -6>>)
      [] p = 59 -> ~Less(x, <<100, -12>>)
      [] p = 60 -> ~Less(x, <<200, -24>>)

\* x >= 0 rounded to a double: below 2^53 units it is exact, from 2^(52+j) it is
\* rounded to a multiple of 2^j, halves going to the even neighbour
RoundPos(x) ==
    LET j   == Cardinality({p \in 53..60 : AtLeastPow(x, p)})
        g   == 2^j
        low == (x[1] * HUE_K_LOW + x[2]) % (2 * g)
        rem == low % g
    IN  IF j = 0 THEN x
        ELSE IF 2 * rem < g \/ (2 * rem = g /\ low = rem)
        THEN <<x[1], x[2] - rem>>
        ELSE <<x[1], x[2] + g - rem>>

\* The exact sum or difference x, as the double the addition returns
RoundDouble(x) ==
    IF Neg(x)
    THEN LET m == RoundPos(<<-x[1], -x[2]>>) IN <<-m[1], -m[2]>>
    ELSE RoundPos(x)

\* Python's x % 1.0 for -1 < x < 2: fmod is exact, and a negative remainder has 1.0
\* added to it, by a float addition
PyMod1(x) ==
    IF Neg(x) THEN RoundDouble(<<x[1] + One[1], x[2] + One[2]>>)
    ELSE IF ~Less(x, One) THEN <<x[1] - One[1], x[2] - One[2]>>
    ELSE x

\* line 257: (self.hue + step * 0.01) % 1.0, for a step of one detent either way
HueStep(h, step) == PyMod1(RoundDouble(<<h[1] + step, h[2]>>))

\* line 170: abs(self.hue - self._last_saved_hue) > 0.001; 0.001 is a tenth of K and
\* e is small, so the doubles are that far apart exactly when n differs
HueDiffers(a, b) == a[1] # b[1]

Saturate(x, cap) == IF x > cap THEN cap ELSE x

\* Variant: the brightness is taken as it comes
ClampPctNone(x) == x

\* int(max(0, min(100, x)))
ClampPct(x) == IF x < 0 THEN 0 ELSE IF x > 100 THEN 100 ELSE x

\* What the screen logic leaves when nothing happens in the frame
Same ==
    [screen |-> screen, selection |-> selection, confirm_for |-> confirm_for,
     hue |-> hue, user_pct |-> user_pct, lang_idx |-> lang_idx,
     reset_action |-> "none", changed |-> FALSE]

\* Variant: a press counts as an edge whatever the frame before reported
PressedEdgeLevel(raw, sinceEdge) ==
    raw /\ sinceEdge > BTN_EDGE_DEBOUNCE

\* lines 211-213: a press edge is a press after a frame without one, more than the
\* debounce after the last accepted edge
PressedEdge(raw, sinceEdge) ==
    raw /\ ~btn_was_pressed /\ sinceEdge > BTN_EDGE_DEBOUNCE

\* lines 249-252: Info
OnInfo(step, pressed_edge, can_change_screen) ==
    IF pressed_edge /\ can_change_screen
    THEN [Same EXCEPT !.screen = 1, !.changed = TRUE]
    ELSE Same

\* Variant: on Color a press edge changes the screen whatever the time since the last change
OnColorUngated(step, pressed_edge, can_change_screen) ==
    LET r == [Same EXCEPT !.hue = IF step # 0 THEN HueStep(hue, step) ELSE hue]
    IN  IF pressed_edge
        THEN [r EXCEPT !.screen = 2, !.changed = TRUE]
        ELSE r

\* lines 254-260: Color
OnColor(step, pressed_edge, can_change_screen) ==
    LET r == [Same EXCEPT !.hue = IF step # 0 THEN HueStep(hue, step) ELSE hue]
    IN  IF pressed_edge /\ can_change_screen
        THEN [r EXCEPT !.screen = 2, !.changed = TRUE]
        ELSE r

\* Variant: the brightness is adjusted only when the screen may change
OnBrightnessGated(step, pressed_edge, can_change_screen) ==
    LET r == [Same EXCEPT !.user_pct = IF can_change_screen
                                       THEN ClampPct(user_pct + step) ELSE user_pct]
    IN  IF pressed_edge /\ can_change_screen
        THEN [r EXCEPT !.screen = 3, !.changed = TRUE]
        ELSE r

\* lines 262-268: Brightness
OnBrightness(step, pressed_edge, can_change_screen) ==
    LET r == [Same EXCEPT !.user_pct = ClampPct(user_pct + step)]
    IN  IF pressed_edge /\ can_change_screen
        THEN [r EXCEPT !.screen = 3, !.changed = TRUE]
        ELSE r

\* Variant: a press on Language goes back to Info
OnLanguageToInfo(step, pressed_edge, can_change_screen) ==
    LET r == [Same EXCEPT !.lang_idx = (lang_idx + step) % NUM_LANGUAGES]
    IN  IF pressed_edge /\ can_change_screen
        THEN [r EXCEPT !.screen = 0, !.changed = TRUE]
        ELSE r

\* Variant: the reset menu is entered with its first entry selected
OnLanguageEntersAtTop(step, pressed_edge, can_change_screen) ==
    LET r == [Same EXCEPT !.lang_idx = (lang_idx + step) % NUM_LANGUAGES]
    IN  IF pressed_edge /\ can_change_screen
        THEN [r EXCEPT !.screen = 4, !.selection = 0, !.changed = TRUE]
        ELSE r

\* lines 270-277: Language
OnLanguage(step, pressed_edge, can_change_screen) ==
    LET r == [Same EXCEPT !.lang_idx = (lang_idx + step) % NUM_LANGUAGES]
    IN  IF pressed_edge /\ can_change_screen
        THEN [r EXCEPT !.screen = 4, !.changed = TRUE]
        ELSE r

\* Variant: the press acts on the selection as it was before the frame's step
OnResetMenuPressFirst(step, pressed_edge, can_change_screen) ==
    LET sel == (selection + step) % 4
        r   == [Same EXCEPT !.selection = sel]
    IN  IF pressed_edge /\ can_change_screen
        THEN IF selection = 0
             THEN [r EXCEPT !.screen = 0, !.changed = TRUE]
             ELSE [r EXCEPT !.screen = 5, !.confirm_for = ResetActions[selection],
                            !.changed = TRUE]
        ELSE r

\* Variant: the first entry of the reset menu is an action like the others
OnResetMenuNoBack(step, pressed_edge, can_change_screen) ==
    LET sel == (selection + step) % 4
        r   == [Same EXCEPT !.selection = sel]
    IN  IF pressed_edge /\ can_change_screen
        THEN [r EXCEPT !.screen = 5,
                       !.confirm_for = ResetActions[IF sel = 0 THEN 1 ELSE sel],
                       !.changed = TRUE]
        ELSE r

\* lines 279-289: Reset menu
OnResetMenu(step, pressed_edge, can_change_screen) ==
    LET sel == (selection + step) % 4
        r   == [Same EXCEPT !.selection = sel]
    IN  IF pressed_edge /\ can_change_screen
        THEN IF sel = 0
             THEN [r EXCEPT !.screen = 0, !.changed = TRUE]
             ELSE [r EXCEPT !.screen = 5, !.confirm_for = ResetActions[sel],
                            !.changed = TRUE]
        ELSE r

\* Variant: the press is looked at first, so it confirms even while the knob turns
OnConfirmPressFirst(step, pressed_edge, can_change_screen) ==
    IF pressed_edge /\ can_change_screen
    THEN [Same EXCEPT !.reset_action = confirm_for,
                      !.screen = 0, !.confirm_for = "none", !.changed = TRUE]
    ELSE IF step # 0 /\ can_change_screen
    THEN [Same EXCEPT !.screen = 0, !.confirm_for = "none", !.changed = TRUE]
    ELSE Same

\* Variant: the confirmed action is returned but the screen state is not reset
OnConfirmStays(step, pressed_edge, can_change_screen) ==
    IF step # 0 /\ can_change_screen
    THEN [Same EXCEPT !.screen = 0, !.confirm_for = "none", !.changed = TRUE]
    ELSE IF pressed_edge /\ can_change_screen
    THEN [Same EXCEPT !.reset_action = confirm_for, !.changed = TRUE]
    ELSE Same

\* Variant: rotation cancels whatever the time since the last screen change
OnConfirmUngated(step, pressed_edge, can_change_screen) ==
    IF step # 0
    THEN [Same EXCEPT !.screen = 0, !.confirm_for = "none", !.changed = TRUE]
    ELSE IF pressed_edge /\ can_change_screen
    THEN [Same EXCEPT !.reset_action = confirm_for,
                      !.screen = 0, !.confirm_for = "none", !.changed = TRUE]
    ELSE Same

\* Variant: a cancel leaves Confirm without clearing the pending action
OnConfirmCancelKeeps(step, pressed_edge, can_change_screen) ==
    IF step # 0 /\ can_change_screen
    THEN [Same EXCEPT !.screen = 0, !.changed = TRUE]
    ELSE IF pressed_edge /\ can_change_screen
    THEN [Same EXCEPT !.reset_action = confirm_for,
                      !.screen = 0, !.confirm_for = "none", !.changed = TRUE]
    ELSE Same

\* Variant: a cancel that comes with a press edge returns the pending action
OnConfirmCancelReturns(step, pressed_edge, can_change_screen) ==
    IF step # 0 /\ can_change_screen
    THEN [Same EXCEPT !.reset_action = IF pressed_edge THEN confirm_for ELSE "none",
                      !.screen = 0, !.confirm_for = "none", !.changed = TRUE]
    ELSE IF pressed_edge /\ can_change_screen
    THEN [Same EXCEPT !.reset_action = confirm_for,
                      !.screen = 0, !.confirm_for = "none", !.changed = TRUE]
    ELSE Same

\* lines 291-304: Confirm.  Rotation cancels, else a press edge confirms.
OnConfirm(step, pressed_edge, can_change_screen) ==
    IF step # 0 /\ can_change_screen
    THEN [Same EXCEPT !.screen = 0, !.confirm_for = "none", !.changed = TRUE]
    ELSE IF pressed_edge /\ can_change_screen
    THEN [Same EXCEPT !.reset_action = confirm_for,
                      !.screen = 0, !.confirm_for = "none", !.changed = TRUE]
    ELSE Same

\* Variant: the reset menu returns the chosen action at once, without confirmation
ScreenLogicNoConfirm(step, pressed_edge, can_change_screen) ==
    CASE screen = 0 -> OnInfo(step, pressed_edge, can_change_screen)
      [] screen = 1 -> OnColor(step, pressed_edge, can_change_screen)
      [] screen = 2 -> OnBrightness(step, pressed_edge, can_change_screen)
      [] screen = 3 -> OnLanguage(step, pressed_edge, can_change_screen)
      [] screen = 4 ->
           LET r == OnResetMenu(step, pressed_edge, can_change_screen)
           IN  [r EXCEPT !.reset_action = r.confirm_for]
      [] screen = 5 -> OnConfirm(step, pressed_edge, can_change_screen)

\* lines 248-304: the screen logic of an awake frame
ScreenLogic(step, pressed_edge, can_change_screen) ==
    CASE screen = 0 -> OnInfo(step, pressed_edge, can_change_screen)
      [] screen = 1 -> OnColor(step, pressed_edge, can_change_screen)
      [] screen = 2 -> OnBrightness(step, pressed_edge, can_change_screen)
      [] screen = 3 -> OnLanguage(step, pressed_edge, can_change_screen)
      [] screen = 4 -> OnResetMenu(step, pressed_edge, can_change_screen)
      [] screen = 5 -> OnConfirm(step, pressed_edge, can_change_screen)

\* Variant: every change of a setting restarts the save timer
CheckAutoSaveRestarts(r, sinceChange, saveOk) ==
    LET changed == \/ HueDiffers(r.hue, last_saved_hue)
                   \/ r.user_pct # last_saved_brightness
                   \/ r.lang_idx # last_saved_lang
        edited  == <<r.hue, r.user_pct, r.lang_idx>> # <<hue, user_pct, lang_idx>>
        dirty1  == settings_dirty \/ changed
        since1  == IF changed /\ (edited \/ ~settings_dirty) THEN 0 ELSE sinceChange
        saving  == dirty1 /\ since1 >= SETTINGS_SAVE_DELAY
    IN  IF saving /\ saveOk
        THEN /\ last_saved_hue' = r.hue
             /\ last_saved_brightness' = r.user_pct
             /\ last_saved_lang' = r.lang_idx
             /\ settings_dirty' = FALSE
             /\ dirty_age' = SETTINGS_SAVE_DELAY
             /\ wrote' = "ok"
        ELSE /\ UNCHANGED <<last_saved_hue, last_saved_brightness, last_saved_lang>>
             /\ settings_dirty' = dirty1
             /\ dirty_age' = IF dirty1 THEN since1 ELSE SETTINGS_SAVE_DELAY
             /\ wrote' = IF saving THEN "failed" ELSE "none"

\* Variant: a save that fails is given up, the settings count as saved
CheckAutoSaveGivesUp(r, sinceChange, saveOk) ==
    LET changed == \/ HueDiffers(r.hue, last_saved_hue)
                   \/ r.user_pct # last_saved_brightness
                   \/ r.lang_idx # last_saved_lang
        dirty1  == settings_dirty \/ changed
        since1  == IF changed /\ ~settings_dirty THEN 0 ELSE sinceChange
        saving  == dirty1 /\ since1 >= SETTINGS_SAVE_DELAY
    IN  IF saving
        THEN /\ last_saved_hue' = r.hue
             /\ last_saved_brightness' = r.user_pct
             /\ last_saved_lang' = r.lang_idx
             /\ settings_dirty' = FALSE
             /\ dirty_age' = SETTINGS_SAVE_DELAY
             /\ wrote' = IF saveOk THEN "ok" ELSE "failed"
        ELSE /\ UNCHANGED <<last_saved_hue, last_saved_brightness, last_saved_lang>>
             /\ settings_dirty' = dirty1
             /\ dirty_age' = IF dirty1 THEN since1 ELSE SETTINGS_SAVE_DELAY
             /\ wrote' = "none"

\* lines 165-186 and 117-149: _check_auto_save on the settings r the frame leaves,
\* sinceChange after the start of the dirty period; a save that succeeds updates
\* the tracking, a save that fails changes nothing
CheckAutoSave(r, sinceChange, saveOk) ==
    LET changed == \/ HueDiffers(r.hue, last_saved_hue)
                   \/ r.user_pct # last_saved_brightness
                   \/ r.lang_idx # last_saved_lang
        dirty1  == settings_dirty \/ changed
        since1  == IF changed /\ ~settings_dirty THEN 0 ELSE sinceChange
        saving  == dirty1 /\ since1 >= SETTINGS_SAVE_DELAY
    IN  IF saving /\ saveOk
        THEN /\ last_saved_hue' = r.hue
             /\ last_saved_brightness' = r.user_pct
             /\ last_saved_lang' = r.lang_idx
             /\ settings_dirty' = FALSE
             /\ dirty_age' = SETTINGS_SAVE_DELAY
             /\ wrote' = "ok"
        ELSE /\ UNCHANGED <<last_saved_hue, last_saved_brightness, last_saved_lang>>
             /\ settings_dirty' = dirty1
             /\ dirty_age' = IF dirty1 THEN since1 ELSE SETTINGS_SAVE_DELAY
             /\ wrote' = IF saving THEN "failed" ELSE "none"

\* What every frame records of itself
Observed(step, pressed_edge, sinceChange, reset_action) ==
    /\ atScreen' = screen
    /\ atConfirm' = confirm_for
    /\ wasAsleep' = oled_sleeping
    /\ stepIn' = step
    /\ edge' = pressed_edge
    /\ gateOpen' = (sinceChange > SCREEN_CHANGE_DELAY)
    /\ ret' = reset_action

\* Variant: the inactivity test never succeeds
SleepNever(sinceActivity) == FALSE

\* lines 197 and 230: (now - self._last_activity) >= OLED_SLEEP_SECS
SleepDue(sinceActivity) == sinceActivity >= OLED_SLEEP_SECS

\* Variant: without an encoder the autosave timer is not looked at
NoEncoderFrameSkipsSave(sinceEdge, sinceChange, sinceActivity, sinceDirty, saveOk) ==
    /\ oled_sleeping' = (oled_sleeping \/ SleepDue(sinceActivity))
    /\ activity_age' = sinceActivity
    /\ debounce_age' = sinceEdge
    /\ change_age' = sinceChange
    /\ dirty_age' = sinceDirty
    /\ wrote' = "none"
    /\ Observed(0, FALSE, sinceChange, "none")
    /\ UNCHANGED <<screen, selection, confirm_for, hue, user_pct, lang_idx,
                   btn_was_pressed, edits, settings_dirty, last_saved_hue,
                   last_saved_brightness, last_saved_lang>>

\* lines 194-203: no encoder, only the sleep timer and the auto-save run
NoEncoderFrame(sinceEdge, sinceChange, sinceActivity, sinceDirty, saveOk) ==
    /\ oled_sleeping' = (oled_sleeping \/ SleepDue(sinceActivity))
    /\ activity_age' = sinceActivity
    /\ debounce_age' = sinceEdge
    /\ change_age' = sinceChange
    /\ CheckAutoSave(Same, sinceDirty, saveOk)
    /\ Observed(0, FALSE, sinceChange, "none")
    /\ UNCHANGED <<screen, selection, confirm_for, hue, user_pct, lang_idx,
                   btn_was_pressed, edits>>

\* lines 228-229 and 241-316: awake, the screen logic runs
AwakeFrame(step, pressed_edge, sinceChange, sinceActivity, sinceDirty, saveOk) ==
    LET has_activity      == step # 0 \/ pressed_edge
        can_change_screen == sinceChange > SCREEN_CHANGE_DELAY
        r                 == ScreenLogic(step, pressed_edge, can_change_screen)
        edited            == <<r.hue, r.user_pct, r.lang_idx>> # <<hue, user_pct, lang_idx>>
    IN  /\ edited => edits < scenario.edits
        /\ edits' = IF edited THEN edits + 1 ELSE edits
        /\ oled_sleeping' = FALSE
        /\ activity_age' = IF has_activity THEN 0 ELSE sinceActivity
        /\ screen' = r.screen
        /\ selection' = r.selection
        /\ confirm_for' = r.confirm_for
        /\ hue' = r.hue
        /\ user_pct' = r.user_pct
        /\ lang_idx' = r.lang_idx
        /\ change_age' = IF r.changed THEN 0 ELSE sinceChange
        /\ CheckAutoSave(r, sinceDirty, saveOk)
        /\ Observed(step, pressed_edge, sinceChange, r.reset_action)

\* Variant: the input that wakes the display is also given to the screen logic
AsleepFrameActs(step, pressed_edge, sinceChange, sinceActivity, sinceDirty, saveOk) ==
    AwakeFrame(step, pressed_edge, sinceChange, sinceActivity, sinceDirty, saveOk)

\* lines 221-226: asleep, activity only wakes the display
AsleepFrame(step, pressed_edge, sinceChange, sinceActivity, sinceDirty, saveOk) ==
    LET has_activity == step # 0 \/ pressed_edge
    IN  /\ oled_sleeping' = ~has_activity
        /\ activity_age' = IF has_activity THEN 0 ELSE sinceActivity
        /\ change_age' = sinceChange
        /\ CheckAutoSave(Same, sinceDirty, saveOk)
        /\ Observed(step, pressed_edge, sinceChange, "none")
        /\ UNCHANGED <<screen, selection, confirm_for, hue, user_pct, lang_idx, edits>>

\* lines 230-233: awake and idle for the sleep delay, the display goes to sleep
FallAsleepFrame(sinceChange, sinceActivity, sinceDirty, saveOk) ==
    /\ oled_sleeping' = TRUE
    /\ activity_age' = sinceActivity
    /\ change_age' = sinceChange
    /\ CheckAutoSave(Same, sinceDirty, saveOk)
    /\ Observed(0, FALSE, sinceChange, "none")
    /\ UNCHANGED <<screen, selection, confirm_for, hue, user_pct, lang_idx, edits>>

\* The frames explored: closely spaced for up to scenario.quick after the last activity and
\* after the settings became dirty, and then (or at any time) after a long gap
Explored(gap) ==
    \/ gap > scenario.quick
    \/ /\ activity_age = OLED_SLEEP_SECS \/ activity_age + gap <= scenario.quick
       /\ dirty_age = SETTINGS_SAVE_DELAY \/ dirty_age + gap <= scenario.quick

\* What every frame records of the dirty run and of the save, gap after the frame before
SaveObserved(gap) ==
    LET edited    == <<hue, user_pct, lang_idx>>' # <<hue, user_pct, lang_idx>>
        startsRun == edited /\ ~settings_dirty
        runNow    == Saturate(run_age + gap, SETTINGS_SAVE_DELAY)
        editNow   == IF edited THEN 0 ELSE Saturate(edit_age + gap, SETTINGS_SAVE_DELAY)
    IN  /\ nRuns' = IF startsRun THEN nRuns + 1 ELSE nRuns
        /\ runEdits' = IF startsRun THEN 1 ELSE IF edited THEN runEdits + 1 ELSE runEdits
        /\ nSaves' = IF wrote' = "ok" THEN nSaves + 1 ELSE nSaves
        /\ savedAfter' = IF wrote' = "ok" THEN editNow ELSE SETTINGS_SAVE_DELAY
        /\ run_age' = IF startsRun THEN 0
                      ELSE IF settings_dirty THEN runNow ELSE SETTINGS_SAVE_DELAY
        /\ edit_age' = IF ~settings_dirty' THEN SETTINGS_SAVE_DELAY ELSE editNow
        /\ nFailed' = IF startsRun THEN 0
                      ELSE IF wrote' = "failed" THEN Saturate(nFailed + 1, 2) ELSE nFailed

\* OledUI.handle, lines 189-316: one frame of the main loop, gap after the one before;
\* saveOk: the settings file can be written
Frame(gap, step, raw_press, saveOk) ==
        LET sinceEdge     == Saturate(debounce_age + gap, BTN_EDGE_DEBOUNCE + 1)
            sinceChange   == Saturate(change_age + gap, SCREEN_CHANGE_DELAY + 1)
            sinceActivity == Saturate(activity_age + gap, OLED_SLEEP_SECS)
            sinceDirty    == Saturate(dirty_age + gap, SETTINGS_SAVE_DELAY)
            pressed_edge  == PressedEdge(raw_press, sinceEdge)
        IN  /\ Explored(gap)
            /\ IF ~hasEncoder
               THEN /\ step = 0 /\ ~raw_press
                    /\ NoEncoderFrame(sinceEdge, sinceChange, sinceActivity, sinceDirty, saveOk)
               ELSE /\ btn_was_pressed' = raw_press
                    /\ debounce_age' = IF pressed_edge THEN 0 ELSE sinceEdge
                    /\ IF oled_sleeping
                       THEN AsleepFrame(step, pressed_edge, sinceChange, sinceActivity,
                                        sinceDirty, saveOk)
                       ELSE IF step = 0 /\ ~pressed_edge /\ SleepDue(sinceActivity)
                       THEN FallAsleepFrame(sinceChange, sinceActivity, sinceDirty, saveOk)
                       ELSE AwakeFrame(step, pressed_edge, sinceChange, sinceActivity,
                                       sinceDirty, saveOk)
            /\ shownFor' = Saturate(shown_age + gap, SCREEN_CHANGE_DELAY + 1)
            /\ shown_age' = IF screen' # screen THEN 0 ELSE shownFor'
            /\ UNCHANGED <<encVars, sideVars, hasEncoder, scenario>>

\* A frame of the main loop, led_display.py lines 290-429
Handle ==
    \E gap \in scenario.gaps,
       step \in (IF screen \in scenario.turnOn THEN StepValues ELSE {0}),
       raw_press \in BOOLEAN,
       saveOk \in (IF settings_dirty THEN BOOLEAN ELSE {TRUE}) :
        /\ Frame(gap, step, raw_press, saveOk)
        /\ UNCHANGED <<saveHist, edgeHist, turnHist>>

\* From now on handle() is called with no encoder (encoder is None, line 194)
EncoderGone ==
    /\ hasEncoder
    /\ hasEncoder' = FALSE
    /\ UNCHANGED <<encVars, sideVars, uiHist, screen, selection, confirm_for, hue, user_pct,
                   lang_idx, btn_was_pressed, debounce_age, change_age, activity_age,
                   oled_sleeping, settings_dirty, dirty_age, last_saved_hue,
                   last_saved_brightness, last_saved_lang, scenario>>

\* The same frame, with the history of the dirty run and of the save recorded
HandleWatched ==
    \E gap \in scenario.gaps,
       step \in (IF screen \in scenario.turnOn THEN StepValues ELSE {0}),
       raw_press \in BOOLEAN,
       saveOk \in (IF settings_dirty THEN BOOLEAN ELSE {TRUE}) :
        /\ Frame(gap, step, raw_press, saveOk)
        /\ SaveObserved(gap)
        /\ UNCHANGED <<edgeHist, turnHist>>

\* What a frame records of the press reported to the frame before and of the time
\* since the last press edge
EdgeObserved(gap) ==
    /\ rawBefore' = btn_was_pressed
    /\ edgeFor' = Saturate(edge_age + gap, BTN_EDGE_DEBOUNCE + 1)
    /\ edge_age' = IF edge' THEN 0 ELSE edgeFor'

\* The same frame, with the history of the press edges recorded
HandleEdges ==
    \E gap \in scenario.gaps,
       step \in (IF screen \in scenario.turnOn THEN StepValues ELSE {0}),
       raw_press \in BOOLEAN,
       saveOk \in (IF settings_dirty THEN BOOLEAN ELSE {TRUE}) :
        /\ Frame(gap, step, raw_press, saveOk)
        /\ EdgeObserved(gap)
        /\ UNCHANGED <<saveHist, turnHist>>

\* What a frame records of the knob on the reset menu: the frame began awake on the
\* reset menu and its step was not zero
TurnObserved ==
    turned' = (turned \/ (atScreen' = 4 /\ ~wasAsleep' /\ stepIn' # 0))

\* The same frame, with the history of the knob on the reset menu recorded
HandleTurns ==
    \E gap \in scenario.gaps,
       step \in (IF screen \in scenario.turnOn THEN StepValues ELSE {0}),
       raw_press \in BOOLEAN,
       saveOk \in (IF settings_dirty THEN BOOLEAN ELSE {TRUE}) :
        /\ Frame(gap, step, raw_press, saveOk)
        /\ TurnObserved
        /\ UNCHANGED <<saveHist, edgeHist>>

(***************************************************************************)
(* The settings file and its writers: OledUI._save_settings                *)
(* (src/oled_ui.py) and the language choice (src/otp_project/main.py)      *)
(*                                                                         *)
(* A write is followed system call by system call; the process may be      *)
(* killed between any two of them, and a write may raise (disk full).      *)
(***************************************************************************)
\* oled_ui.py lines 130-132: temp_file is opened for writing, which creates it empty
UiSaveOpen ==
    /\ ~crashed
    /\ writer = "none"
    /\ nWrites < MaxWrites
    /\ nWrites' = nWrites + 1
    /\ writer' = "ui"
    /\ wpc' = "dump"
    /\ temp_file' = <<"truncated", nWrites'>>
    /\ UNCHANGED <<encVars, uiVars, uiHist, holdVars, burstVars, settings_file, crashed, lastValid>>

\* oled_ui.py lines 132-133: json.dump and the close of temp_file
UiSaveDump ==
    /\ ~crashed
    /\ writer = "ui" /\ wpc = "dump"
    /\ temp_file' = <<"complete", nWrites>>
    /\ wpc' = "replace"
    /\ UNCHANGED <<encVars, uiVars, uiHist, holdVars, burstVars, settings_file, writer, nWrites, crashed,
                   lastValid>>

\* oled_ui.py line 134: temp_file.replace(SETTINGS_FILE), a rename
UiSaveReplace ==
    /\ ~crashed
    /\ writer = "ui" /\ wpc = "replace"
    /\ settings_file' = temp_file
    /\ temp_file' = <<"absent">>
    /\ lastValid' = temp_file
    /\ writer' = "none"
    /\ wpc' = "open"
    /\ UNCHANGED <<encVars, uiVars, uiHist, holdVars, burstVars, nWrites, crashed>>

\* oled_ui.py lines 148-149: the write raises and _save_settings gives up
UiSaveRaises ==
    /\ ~crashed
    /\ writer = "ui" /\ wpc \in {"dump", "replace"}
    /\ writer' = "none"
    /\ wpc' = "open"
    /\ UNCHANGED <<encVars, uiVars, uiHist, holdVars, burstVars, settings_file, temp_file, nWrites,
                   crashed, lastValid>>

\* main.py lines 818-823: the record is read, and the file itself is opened for writing,
\* which empties it
MainPersistOpen ==
    /\ ~crashed
    /\ writer = "none"
    /\ nWrites < MaxWrites
    /\ nWrites' = nWrites + 1
    /\ writer' = "main"
    /\ wpc' = "dump"
    /\ settings_file' = <<"truncated", nWrites'>>
    /\ UNCHANGED <<encVars, uiVars, uiHist, holdVars, burstVars, temp_file, crashed, lastValid>>

\* main.py line 824: json.dump and the close of the file
MainPersistDump ==
    /\ ~crashed
    /\ writer = "main" /\ wpc = "dump"
    /\ settings_file' = <<"complete", nWrites>>
    /\ lastValid' = settings_file'
    /\ writer' = "none"
    /\ wpc' = "open"
    /\ UNCHANGED <<encVars, uiVars, uiHist, holdVars, burstVars, temp_file, nWrites, crashed>>

\* main.py lines 826-827: the write raises and is given up
MainPersistRaises ==
    /\ ~crashed
    /\ writer = "main" /\ wpc = "dump"
    /\ writer' = "none"
    /\ wpc' = "open"
    /\ UNCHANGED <<encVars, uiVars, uiHist, holdVars, burstVars, settings_file, temp_file, nWrites,
                   crashed, lastValid>>

\* The process is killed, or power is lost
Crash ==
    /\ ~crashed
    /\ crashed' = TRUE
    /\ UNCHANGED <<encVars, uiVars, uiHist, holdVars, burstVars, settings_file, temp_file, writer, wpc,
                   nWrites, lastValid>>

\* No write is in progress; the file holds a record or does not exist yet
FileInit ==
    /\ settings_file \in {<<"absent">>, <<"complete", 0>>}
    /\ temp_file = <<"absent">>
    /\ writer = "none"
    /\ wpc = "open"
    /\ nWrites = 0
    /\ crashed = FALSE
    /\ lastValid = settings_file

\* The settings file has been written by the menu before
FileAtRest ==
    /\ FileInit
    /\ settings_file = <<"complete", 0>>

(***************************************************************************)
(* The burst read: OledUI._read_inputs_safer                               *)
(***************************************************************************)
SAMPLES == 5      \* samples = 5

\* What a steps() call and a pressed() call can do: raise, or return a value
StepsOutcomes   == {<<FALSE, 0>>} \cup {<<TRUE, v>> : v \in StepValues}
PressedOutcomes == {<<FALSE, FALSE>>, <<TRUE, FALSE>>, <<TRUE, TRUE>>}

\* Variant: one try around both calls, so a steps() that raises skips pressed()
SampleTogether(so, po) ==
    /\ total_steps' = IF so[1] /\ so[2] # 0 THEN total_steps + so[2] ELSE total_steps
    /\ any_press' = (any_press \/ (so[1] /\ po[1] /\ po[2]))
    /\ calls' = <<calls[1] + 1, IF so[1] THEN calls[2] + 1 ELSE calls[2]>>

\* lines 350-363: one sample, each call inside its own try
SampleApart(so, po) ==
    /\ total_steps' = IF so[1] /\ so[2] # 0 THEN total_steps + so[2] ELSE total_steps
    /\ any_press' = (any_press \/ (po[1] /\ po[2]))
    /\ calls' = <<calls[1] + 1, calls[2] + 1>>

\* lines 349-365: an iteration of  for _ in range(samples)
BurstSample ==
    /\ sample < SAMPLES
    /\ \E so \in StepsOutcomes, po \in PressedOutcomes :
         /\ SampleApart(so, po)
         /\ burst' = Append(burst, <<so, po>>)
    /\ sample' = sample + 1
    /\ UNCHANGED <<encVars, uiVars, uiHist, fileVars, holdVars>>

\* lines 344-345
BurstInit ==
    /\ sample = 0
    /\ total_steps = 0
    /\ any_press = FALSE
    /\ burst = <<>>
    /\ calls = <<0, 0>>


\* OledUI.__init__, lines 48-98
UiInitMenu ==
    /\ hasEncoder \in BOOLEAN
    /\ screen = 0
    /\ selection = 0
    /\ confirm_for = "none"
    /\ \E saved_settings \in scenario.loaded :
         /\ hue = PyMod1(saved_settings[1])
         /\ user_pct = ClampPct(saved_settings[2])
         /\ lang_idx = (IF saved_settings[3] \in 0..(NUM_LANGUAGES - 1)
                        THEN saved_settings[3] ELSE 0)
    /\ last_saved_hue = hue
    /\ last_saved_brightness = user_pct
    /\ last_saved_lang = lang_idx
    /\ btn_was_pressed = FALSE
    /\ debounce_age \in {0, BTN_EDGE_DEBOUNCE + 1}
    /\ change_age = 0
    /\ activity_age = 0
    /\ oled_sleeping = FALSE
    /\ settings_dirty = FALSE
    /\ dirty_age = SETTINGS_SAVE_DELAY
    /\ atScreen = 0 /\ atConfirm = "none" /\ wasAsleep = FALSE
    /\ stepIn = 0 /\ edge = FALSE /\ gateOpen = FALSE /\ ret = "none" /\ edits = 0
    /\ shown_age = 0 /\ shownFor = 0
    /\ wrote = "none" /\ nSaves = 0 /\ nRuns = 0 /\ runEdits = 0
    /\ run_age = SETTINGS_SAVE_DELAY /\ edit_age = SETTINGS_SAVE_DELAY
    /\ savedAfter = SETTINGS_SAVE_DELAY /\ nFailed = 0
    /\ rawBefore = FALSE
    /\ edge_age = BTN_EDGE_DEBOUNCE + 1 /\ edgeFor = BTN_EDGE_DEBOUNCE + 1
    /\ turned = FALSE

\* The menu after construction, no burst read and no write of the settings in progress
\* The knob is not followed: samples are drawn freely or from the script
KnobUnwatched ==
    /\ lines = NoLines
    /\ heldMoves = 0 /\ freeMoves = 0 /\ nMoves = 0

\* The menu at rest, whatever the knob
UiInitIdle ==
    /\ UiInitMenu
    /\ BurstInit
    /\ FileAtRest

UiInit ==
    /\ UiInitIdle
    /\ KnobUnwatched

\* Frames at any of the main loop's gaps, the knob turned on any screen
Everyday == [gaps |-> FrameGaps, turnOn |-> 0..5, edits |-> MaxEdits,
             loaded |-> LoadedSettings, quick |-> MaxQuick]

\* The menu is not running
UiAtRest ==
    /\ scenario = Everyday
    /\ UiInit
    /\ hasEncoder
    /\ hue = <<0, 0>>
    /\ debounce_age = 0

(***************************************************************************)
(* Specifications                                                          *)
(***************************************************************************)
\* Encoder.__init__, lines 151-168, with the sampler about to poll
EncoderInit ==
    /\ ppr \in PprValues
    /\ state \in 0..3
    /\ steps = 0
    /\ locked = FALSE
    /\ press_latch = FALSE
    /\ btn_last = sw
    /\ btn_last_change = 0
    /\ spc = "quad"
    /\ det = 0
    /\ tmp = 0
    /\ next_t = 0
    /\ wake = 0
    /\ cpc = "idle"
    /\ s = 0
    /\ now = 0
    /\ extracted = 0 /\ returned = 0 /\ drained = FALSE /\ prevRet = 0
    /\ quiet = TRUE /\ wasQuiet = FALSE /\ transSum = 0 /\ dirs = {}
    /\ pos = 0 /\ accum0 = accum
    /\ nPress = (IF Active(sw) THEN 1 ELSE 0)
    /\ pressAt = 0 /\ heldFor = 0
    /\ nLatch = 0 /\ nTrue = 0 /\ unseen = FALSE /\ overrun = FALSE
    /\ consecutive_errors = 0 /\ failing = "none" /\ erred = FALSE /\ errIters = 0
    /\ afterStop = "none"

\* The button: the knob is at rest, the consumer polls pressed().
Init ==
    /\ active_low = TRUE
    /\ sw \in {0, 1}
    /\ knob = FALSE
    /\ horizon = MaxTime
    /\ script = <<>>
    /\ accum = 0
    /\ EncoderInit
    /\ LifeRunning
    /\ ppr = 4
    /\ state = 3
    /\ UiAtRest

Next ==
    \/ PollQuadrature
    \/ PollButton
    \/ WaitRelease
    \/ PollSleep
    \/ PressedRead
    \/ PressedClear
    \/ Press
    \/ Release
    \/ Tick

Spec == Init /\ [][Next]_vars

\* The knob: the button is released throughout, the consumer polls steps().
InitSteps ==
    /\ active_low = TRUE
    /\ sw = ReleasedLevel
    /\ knob = TRUE
    /\ horizon = MaxPolls
    /\ script = <<>>
    /\ accum = 0
    /\ EncoderInit
    /\ LifeRunning
    /\ UiAtRest

NextSteps ==
    \/ PollQuadrature
    \/ AddStepsLoad
    \/ AddStepsStore
    \/ PollButton
    \/ PollSleep
    \/ StepsRead
    \/ StepsZero
    \/ Tick

SpecSteps == InitSteps /\ [][NextSteps]_vars

\* The knob turned one way and back by a script, from any accumulator value the
\* sampler can hold between iterations; nobody drains.
Turns == UNION {[1..n -> {1, -1}] : n \in 1..MaxScript}

InitDecode ==
    /\ active_low = TRUE
    /\ sw = ReleasedLevel
    /\ knob = TRUE
    /\ script \in Turns
    /\ horizon = 2 * MaxScript
    /\ ppr \in PprValues
    /\ accum \in (1 - ppr)..(ppr - 1)
    /\ EncoderInit
    /\ LifeRunning
    /\ state = 3
    /\ UiAtRest

NextDecode ==
    \/ PollQuadrature
    \/ AddStepsLoad
    \/ AddStepsStore
    \/ PollButton
    \/ PollSleep
    \/ Tick

SpecDecode == InitDecode /\ [][NextDecode]_vars

\* Reads begin to fail at some time: the knob makes one move and the same move back,
\* the button is held down or left alone throughout, the consumer polls steps() and
\* pressed().
InitFaults ==
    /\ active_low = TRUE
    /\ sw \in {0, 1}
    /\ knob = TRUE
    /\ script = <<1>>
    /\ horizon = MaxFaultTime
    /\ accum = 0
    /\ EncoderInit
    /\ LifeRunning
    /\ ppr = 1
    /\ state = 3
    /\ UiAtRest

NextFaults ==
    \/ PollQuadrature
    \/ PollQuadratureFails
    \/ AddStepsLoad
    \/ AddStepsStore
    \/ PollButton
    \/ PollButtonFails
    \/ WaitRelease
    \/ WaitReleaseFails
    \/ PollSleep
    \/ StepsRead
    \/ StepsZero
    \/ PressedRead
    \/ PressedClear
    \/ LinesFail
    \/ Tick

SpecFaults == InitFaults /\ [][NextFaults]_vars

\* The sampler takes no step
SamplerAtRest ==
    /\ active_low = TRUE
    /\ sw = ReleasedLevel
    /\ knob = FALSE
    /\ script = <<>>
    /\ accum = 0
    /\ EncoderInit
    /\ ppr = 4
    /\ state = 3

\* The sampler is not running
EncoderAtRest ==
    /\ horizon = 0
    /\ SamplerAtRest
    /\ LifeRunning

\* close(): the knob makes one move and back, the button is held down or left alone
\* throughout, reads may hang, and close() is called at any time, then once more.
\* Every backend failed in _make_pin (lines 111-126): the three lines of object 1 are
\* _DummyPin objects, nothing is claimed at the driver
LifeStub ==
    /\ stop = [i \in Instances |-> FALSE]
    /\ alive = [i \in Instances |-> i = 1]
    /\ phase = [i \in Instances |-> IF i = 1 THEN "running" ELSE "absent"]
    /\ pins = [i \in Instances |-> [l \in Lines |-> IF i = 1 THEN "dummy" ELSE "none"]]
    /\ chip = 0
    /\ claimed_pins = {}
    /\ held = [l \in Lines |-> 0]
    /\ opened = {}
    /\ hung = FALSE
    /\ joinStart = 0
    /\ latest = 1
    /\ closes = [i \in Instances |-> 0]
    /\ joinWaited = 0
    /\ raised = FALSE
    /\ freeCalls = [i \in Instances |-> [l \in Lines |-> 0]]
    /\ strayFree = FALSE
    /\ driverFailed = FALSE
    /\ sweep = NoSweep
    /\ stopMark = <<0, 0, "none">>

\* An encoder on three stub lines, for either configured polarity: every read returns
\* STUB_LEVEL whatever the hardware does, so sw and state hold what the stub reports
InitStub ==
    /\ active_low \in BOOLEAN
    /\ sw = STUB_LEVEL
    /\ knob = FALSE
    /\ horizon = MaxStubTime
    /\ script = <<>>
    /\ accum = 0
    /\ EncoderInit
    /\ LifeStub
    /\ ppr \in PprValues
    /\ state = STUB_LEVEL * 2 + STUB_LEVEL
    /\ UiAtRest

NextStub ==
    \/ PollQuadrature
    \/ PollButton
    \/ WaitRelease
    \/ PollSleep
    \/ StepsRead
    \/ StepsZero
    \/ PressedRead
    \/ PressedClear
    \/ Tick

SpecStub == InitStub /\ [][NextStub]_vars

\* The button is down from the start and released at some time while the knob is
\* turned, one transition per detent, and the consumer reads the steps
InitHold ==
    /\ active_low = TRUE
    /\ sw = ActiveLevel
    /\ knob = TRUE
    /\ horizon = MaxHoldTime
    /\ script = <<>>
    /\ accum = 0
    /\ EncoderInit
    /\ LifeRunning
    /\ ppr = 1
    /\ state = 3
    /\ scenario = Everyday
    /\ UiInitIdle
    /\ hasEncoder
    /\ hue = <<0, 0>>
    /\ debounce_age = 0
    /\ lines = state
    /\ heldMoves = 0 /\ freeMoves = 0 /\ nMoves = 0

NextHold ==
    \/ PollQuadrature
    \/ AddStepsLoad
    \/ AddStepsStore
    \/ PollButton
    \/ WaitRelease
    \/ PollSleep
    \/ StepsRead
    \/ StepsZero
    \/ Release
    \/ KnobTurns
    \/ Tick

SpecHold == InitHold /\ [][NextHold]_vars

InitStop ==
    /\ active_low = TRUE
    /\ sw \in {0, 1}
    /\ knob = TRUE
    /\ horizon = MaxStopTime
    /\ script = <<1>>
    /\ accum = 0
    /\ EncoderInit
    /\ LifeRunning
    /\ ppr = 1
    /\ state = 3
    /\ UiAtRest

SamplerStep ==
    \/ PollQuadrature
    \/ AddStepsLoad
    \/ AddStepsStore
    \/ PollButton
    \/ WaitRelease
    \/ WaitStopped
    \/ PollSleep
    \/ PollExit

NextStop ==
    \/ PollQuadrature
    \/ AddStepsLoad
    \/ AddStepsStore
    \/ PollButton
    \/ WaitRelease
    \/ WaitStopped
    \/ PollSleep
    \/ PollExit
    \/ LineHangs
    \/ CloseBegin(1)
    \/ CloseJoin(1)
    \/ CloseRelease(1)
    \/ Tick

SpecStop == InitStop /\ [][NextStop]_vars

\* The sampler thread is scheduled, and time passes
SpecStopFair == SpecStop /\ WF_vars(SamplerStep) /\ WF_vars(Tick)

\* Encoder objects are constructed and closed in any order, each closed up to
\* MaxCloses times or not at all.
InitLines ==
    /\ horizon = StopMargin
    /\ SamplerAtRest
    /\ LifeNone
    /\ UiAtRest

NextLines ==
    \/ \E i \in Instances : Construct(i)
    \/ \E i \in Instances : CloseBegin(i)
    \/ \E i \in Instances : CloseJoin(i)
    \/ \E i \in Instances : CloseRelease(i)
    \/ \E i \in Instances : ThreadExits(i)
    \/ PollExit

SpecLines == InitLines /\ [][NextLines]_vars

\* The burst read on every pattern of values and failures of its calls.
InitBurst ==
    /\ EncoderAtRest
    /\ UiAtRest

NextBurst ==
    \/ BurstSample

SpecBurst == InitBurst /\ [][NextBurst]_vars

\* The writers of the settings file, one after the other, in any order
InitFile ==
    /\ EncoderAtRest
    /\ scenario = Everyday
    /\ UiInitMenu
    /\ BurstInit
    /\ FileInit
    /\ KnobUnwatched
    /\ hasEncoder
    /\ hue = <<0, 0>>
    /\ debounce_age = 0

NextFile ==
    \/ UiSaveOpen
    \/ UiSaveDump
    \/ UiSaveReplace
    \/ UiSaveRaises
    \/ MainPersistOpen
    \/ MainPersistDump
    \/ MainPersistRaises
    \/ Crash

SpecFile == InitFile /\ [][NextFile]_vars

\* The menu, frame by frame, on the inputs the burst read hands it.
InitUI ==
    /\ EncoderAtRest
    /\ scenario = Everyday
    /\ UiInit

\* The colour is edited, at most MaxSaveEdits times, and left to be saved: frames
\* follow each other closely, or just short of the save delay, or at the save delay
SaveGaps == {1, SETTINGS_SAVE_DELAY - 1, SETTINGS_SAVE_DELAY}

InitSave ==
    /\ EncoderAtRest
    /\ scenario = [gaps |-> SaveGaps, turnOn |-> {1}, edits |-> MaxSaveEdits,
                   loaded |-> LoadedSettings, quick |-> MaxQuick]
    /\ UiInit
    /\ hasEncoder
    /\ debounce_age = BTN_EDGE_DEBOUNCE + 1

NextUI ==
    \/ Handle

SpecUI == InitUI /\ [][NextUI]_vars

\* The menu starts from unusual settings and the knob is turned on the brightness,
\* language and reset screens
InitLoaded ==
    /\ EncoderAtRest
    /\ scenario = [gaps |-> {1, SETTINGS_SAVE_DELAY}, turnOn |-> 2..4,
                   edits |-> MaxEdits, loaded |-> UnusualSettings, quick |-> MaxQuick]
    /\ UiInit
    /\ hasEncoder
    /\ debounce_age = BTN_EDGE_DEBOUNCE + 1

SpecLoaded == InitLoaded /\ [][NextUI]_vars

\* The menu starts from unusual settings and the knob is turned on the Color screen
InitHue ==
    /\ EncoderAtRest
    /\ scenario = [gaps |-> {1, SETTINGS_SAVE_DELAY}, turnOn |-> {1},
                   edits |-> MaxHueEdits, loaded |-> UnusualSettings, quick |-> MaxQuick]
    /\ UiInit
    /\ hasEncoder
    /\ debounce_age = BTN_EDGE_DEBOUNCE + 1

SpecHue == InitHue /\ [][NextUI]_vars

\* The colour is edited, then handle() is called with no encoder: closely, after the
\* save delay, after the sleep delay
InitNoEncoder ==
    /\ EncoderAtRest
    /\ scenario = [gaps |-> FrameGaps, turnOn |-> {1}, edits |-> MaxEdits,
                   loaded |-> LoadedSettings, quick |-> MaxQuick]
    /\ UiInit
    /\ hasEncoder

NextNoEncoder ==
    \/ Handle
    \/ EncoderGone

SpecNoEncoder == InitNoEncoder /\ [][NextNoEncoder]_vars

\* The button alone, on frames that follow each other within the debounce time of
\* the press edge or just beyond it
InitEdge ==
    /\ EncoderAtRest
    /\ scenario = [gaps |-> 0..(BTN_EDGE_DEBOUNCE + 1), turnOn |-> {}, edits |-> 0,
                   loaded |-> LoadedSettings, quick |-> MaxQuick]
    /\ UiInit
    /\ hasEncoder
    /\ debounce_age = BTN_EDGE_DEBOUNCE + 1

\* The knob is turned on Info, on the reset menu and on Confirm only, so no setting is
\* edited
InitTurn ==
    /\ EncoderAtRest
    /\ scenario = [gaps |-> FrameGaps, turnOn |-> {0, 4, 5}, edits |-> 0,
                   loaded |-> LoadedSettings, quick |-> MaxQuick]
    /\ UiInit

NextTurn ==
    \/ HandleTurns

SpecTurn == InitTurn /\ [][NextTurn]_vars

\* The language is changed and a reset is chosen and confirmed straight away: frames
\* ResetGap apart, the knob turned on Language and on the reset menu
InitReset ==
    /\ EncoderAtRest
    /\ scenario = [gaps |-> {ResetGap}, turnOn |-> {3, 4}, edits |-> MaxEdits,
                   loaded |-> LoadedSettings, quick |-> SETTINGS_SAVE_DELAY]
    /\ UiInit
    /\ hasEncoder
    /\ debounce_age = BTN_EDGE_DEBOUNCE + 1

NextReset ==
    \/ Handle

SpecReset == InitReset /\ [][NextReset]_vars

\* The knob is turned on every screen; frames follow each other closely until the
\* screen may change again, or come at the save delay
InitOwner ==
    /\ EncoderAtRest
    /\ scenario = [gaps |-> {1, SETTINGS_SAVE_DELAY}, turnOn |-> 0..5, edits |-> MaxEdits,
                   loaded |-> LoadedSettings, quick |-> SCREEN_CHANGE_DELAY + 1]
    /\ UiInit
    /\ hasEncoder
    /\ debounce_age = BTN_EDGE_DEBOUNCE + 1

NextOwner ==
    \/ Handle

SpecOwner == InitOwner /\ [][NextOwner]_vars

NextEdge ==
    \/ HandleEdges

SpecEdge == InitEdge /\ [][NextEdge]_vars

NextSave ==
    \/ HandleWatched

SpecSave == InitSave /\ [][NextSave]_vars

(***************************************************************************)
(* Properties of the sampler and its drain interface                       *)
(***************************************************************************)
Abs(x) == IF x >= 0 THEN x ELSE -x

\* The signed quotient of x by p truncated toward zero, from its definition
Quot(x, p) ==
    CHOOSE q \in (-Abs(x))..Abs(x) :
        /\ Abs(q) * p <= Abs(x)
        /\ Abs(x) < (Abs(q) + 1) * p
        /\ (x >= 0 => q >= 0)
        /\ (x <= 0 => q <= 0)

Pending == IF press_latch THEN 1 ELSE 0

\* Duration of the latest press: up to now while it lasts, final once released
HoldSoFar == IF Active(sw) THEN now - pressAt ELSE heldFor

ScriptDone == script # <<>> /\ pos = 2 * Len(script) /\ spc \notin {"lock", "store"}

\* C1: under every interleaving of the sampler's increments and steps() calls, the
\* values returned so far plus the pending counter equal the detents the sampler
\* has extracted; the value steps() read is still the counter when it zeroes it,
\* and the value the sampler loaded is still the counter when it stores the sum.
C1_NoDetentLostOrDoubled ==
    /\ returned + steps = extracted
    /\ (cpc = "zero" => s = steps)
    /\ (spc = "store" => tmp = steps)

\* C1 witness: steps() is between its read and its reset, having read a nonzero
\* count after an earlier nonzero return, while the sampler waits for the lock.
C1_Witness ==
    cpc = "zero" /\ spc = "lock" /\ s # 0 /\ returned # 0

\* C5 as stated: one press held longer than the debounce window, once released,
\* has produced exactly one True from pressed() (delivered, or latched for the
\* next call).  Fails: the sampler starts its window at the poll that first sees
\* the press, up to one poll interval late.
C5_AsStated ==
    (nPress = 1 /\ Released(sw) /\ heldFor > BTN_DEBOUNCE_MS) => nTrue + Pending = 1

\* C5 amended: one press never latches twice and every latch is reported exactly
\* once; a press held for the debounce window plus one full poll interval (two
\* ticks of the clock) has latched exactly once.
C5_OnePressOneTrue ==
    /\ nPress <= 1 => (nLatch <= 1 /\ nTrue + Pending = nLatch)
    /\ (nPress = 1 /\ HoldSoFar >= BTN_DEBOUNCE_MS + 2 * POLL_MS) => nLatch = 1

\* C5 witness: a single long press, released, seen released by the sampler, and
\* reported by one pressed() call.
C5_Witness ==
    /\ nPress = 1 /\ Released(sw) /\ heldFor >= BTN_DEBOUNCE_MS + 2 * POLL_MS
    /\ btn_last = sw /\ spc # "wait"
    /\ nTrue = 1 /\ ~press_latch /\ cpc = "idle"

\* C6: a single press whose active level lasts less than the debounce window never
\* sets the latch, and no pressed() call returns True before, during or after it.
C6_ShortPressNeverLatches ==
    (nPress <= 1 /\ HoldSoFar < BTN_DEBOUNCE_MS) =>
        (nLatch = 0 /\ ~press_latch /\ nTrue = 0 /\ cpc # "clear")

\* C6 witness: a press one tick short of the window has come and gone, and the
\* sampler has seen both its edges.
C6_Witness ==
    /\ nPress = 1 /\ Released(sw) /\ heldFor = BTN_DEBOUNCE_MS - 1
    /\ btn_last = sw /\ btn_last_change >= pressAt + heldFor
    /\ now > pressAt + heldFor + 1

\* C7 as stated: after any valid transitions polled by a fresh sampler, the first
\* steps() returns the truncated quotient of their signed count by PPR.  Fails
\* when the knob reverses after a detent was extracted.
C7_AsStated ==
    (cpc = "zero" /\ ~drained /\ quiet) => s = Quot(transSum, ppr)

\* C7 amended: the first steps() returns the truncated quotient when all valid
\* transitions went one way; in general it returns a value with
\* PPR * s + accum = signed count and |accum| < PPR.  Invalid pairs count zero.
C7_QuotientOneWay ==
    (cpc = "zero" /\ ~drained /\ quiet) =>
        /\ (Cardinality(dirs) <= 1 => s = Quot(transSum, ppr))
        /\ ppr * s + accum = transSum
        /\ Abs(accum) < ppr

\* C7 witness: five transitions in the negative direction at PPR = 2, first
\* steps() has read -2.
C7_Witness ==
    /\ cpc = "zero" /\ ~drained /\ quiet
    /\ ppr = 2 /\ dirs = {-1} /\ transSum = -5 /\ s = -2

\* C8: steps() returns the pending count, and a steps() call that follows another
\* with no transition polled (and no extraction in flight) in between reads 0.
C8_ReadAndReset ==
    /\ cpc = "zero" => s = extracted - returned
    /\ (cpc = "zero" /\ wasQuiet) => s = 0

\* C8 witness: PPR = 4, transitions summing to +4, the previous steps() returned
\* +1 and this one, right after it, has read 0.
C8_Witness ==
    /\ cpc = "zero" /\ wasQuiet
    /\ ppr = 4 /\ transSum = 4 /\ prevRet = 1 /\ s = 0

\* C9 as stated: from any accumulator value, a turn followed by the same turn in
\* the other direction adds no net detent and restores the accumulator.  Fails
\* when the turn starts off a detent boundary and crosses the next one.
C9_AsStated ==
    ScriptDone => (extracted = 0 /\ accum = accum0)

\* C9 amended: from an accumulator of 0, a turn followed by the same turn in the
\* other direction adds no net detent and leaves the accumulator at 0.
C9_CancelFromRest ==
    (ScriptDone /\ accum0 = 0) => (extracted = 0 /\ accum = 0)

\* C9 witness: PPR = 4, four moves forward (one detent out) then four back (one
\* detent in), from rest.
C9_Witness ==
    /\ ScriptDone /\ accum0 = 0 /\ ppr = 4
    /\ script = <<1, 1, 1, 1>> /\ extracted = 0 /\ accum = 0

C10_LatchNeverErasedUnseen ==
    unseen => press_latch

(***************************************************************************)
(* Properties of the menu                                                  *)
(***************************************************************************)
\* C2: a frame returns a reset action other than the no-op value only if it began
\* on Confirm with confirm_for set and a press edge fired in it, and then it returns
\* that pending action; a frame on any other screen, asleep, falling asleep, waking,
\* without an encoder, or with rotation on Confirm returns the no-op value.
C2_ResetOnlyOnConfirmedPress ==
    ret # "none" =>
        /\ atScreen = 5 /\ atConfirm # "none" /\ edge
        /\ ret = atConfirm
        /\ hasEncoder /\ ~wasAsleep /\ stepIn = 0

\* C2 witness: the frame began on Confirm for "both", a press edge fired, and the
\* frame returned "both".
C2_Witness ==
    atScreen = 5 /\ atConfirm = "both" /\ edge /\ ret = "both"

\* Confirm is entered from the reset menu only, an action is pending on Confirm
\* only, and only a frame that began on Confirm returns one.
ConfirmOnlyViaResetMenu ==
    /\ (screen = 5) = (confirm_for # "none")
    /\ (screen = 5 /\ atScreen # 5) => (atScreen = 4 /\ edge)
    /\ ret # "none" => (atScreen = 5 /\ ret = atConfirm)

\* C3 as stated: on Confirm with confirm_for = A, a frame with a press edge and no
\* step, more than the screen-change delay after Confirm was entered, returns A and
\* leaves Info with confirm_for cleared; A is returned again only after Confirm is
\* entered again from the reset menu.  Fails when the display is asleep: the press
\* only wakes it.
C3_AsStated ==
    /\ (atScreen = 5 /\ atConfirm # "none" /\ edge /\ stepIn = 0 /\ gateOpen) =>
           (ret = atConfirm /\ screen = 0 /\ confirm_for = "none")
    /\ ConfirmOnlyViaResetMenu

\* C3 amended: the same, for a frame that finds the display awake.
C3_ConfirmedPressEmitsOnce ==
    /\ (atScreen = 5 /\ atConfirm # "none" /\ edge /\ stepIn = 0 /\ gateOpen
        /\ ~wasAsleep) =>
           (ret = atConfirm /\ screen = 0 /\ confirm_for = "none")
    /\ ConfirmOnlyViaResetMenu

\* C3 witness: awake on Confirm for "qr", a press edge without rotation past the
\* screen-change delay returned "qr" and left Info with nothing pending.
C3_Witness ==
    /\ atScreen = 5 /\ atConfirm = "qr" /\ edge /\ stepIn = 0 /\ gateOpen /\ ~wasAsleep
    /\ ret = "qr" /\ screen = 0 /\ confirm_for = "none"

\* C4 as stated: in Confirm, every frame whose step is nonzero leaves Info with
\* confirm_for cleared and returns no reset action.  Fails for a rotation within
\* the screen-change delay of entering Confirm, and for one that wakes the display.
C4_AsStated ==
    (atScreen = 5 /\ stepIn # 0) =>
        (screen = 0 /\ confirm_for = "none" /\ ret = "none")

\* C4 amended: in Confirm, a frame whose step is nonzero returns no reset action;
\* awake and more than the screen-change delay after Confirm was entered it leaves
\* Info with confirm_for cleared, otherwise it leaves Confirm as it was.
C4_RotationCancels ==
    (atScreen = 5 /\ stepIn # 0) =>
        /\ ret = "none"
        /\ (~wasAsleep /\ gateOpen) => (screen = 0 /\ confirm_for = "none")
        /\ (wasAsleep \/ ~gateOpen) => (screen = 5 /\ confirm_for = atConfirm)

\* C4 witness: awake on Confirm past the screen-change delay, a frame with both
\* rotation and a press edge cancelled: Info, nothing pending, no reset action.
C4_Witness ==
    /\ atScreen = 5 /\ atConfirm # "none" /\ stepIn # 0 /\ edge /\ gateOpen /\ ~wasAsleep
    /\ screen = 0 /\ confirm_for = "none" /\ ret = "none"

\* What the menu shows and edits
menuState == <<screen, selection, confirm_for, hue, user_pct, lang_idx>>

\* C12: a frame that begins with the display asleep, the waking frame included,
\* leaves screen, selection, confirm_for, hue, brightness and language unchanged and
\* returns the no-op action; the waking input is not applied later either: a press
\* held over from the frame before is no press edge, and a frame with neither step
\* nor press edge changes nothing of the menu.
C12_AsleepFrameChangesNothing ==
    [][ /\ oled_sleeping => (UNCHANGED menuState /\ ret' = "none")
        /\ edge' => ~btn_was_pressed
        /\ (stepIn' = 0 /\ ~edge') => UNCHANGED menuState ]_vars

\* C12 witness: asleep on Color, a frame with both a step and a press edge woke the
\* display; the screen is still Color and no setting was edited.
C12_Witness ==
    /\ wasAsleep /\ ~oled_sleeping /\ stepIn # 0 /\ edge
    /\ atScreen = 1 /\ screen = 1 /\ edits = 0

\* C13: awake, the display goes to sleep on the first frame that has neither step nor
\* press edge and comes at least the sleep delay after the last activity, and on no
\* frame with activity; asleep, it stays asleep through frames without activity and
\* wakes on the first frame with a step or a press edge, which restarts the
\* inactivity timer.
C13_SleepFollowsInactivity ==
    LET activity == stepIn # 0 \/ edge
    IN  /\ activity => (~oled_sleeping /\ activity_age = 0)
        /\ ~activity => (oled_sleeping = (wasAsleep \/ activity_age >= OLED_SLEEP_SECS))

\* C13 witness: with an encoder, the frame that found the display awake and idle for
\* the sleep delay put it to sleep.
C13_Witness ==
    /\ hasEncoder /\ ~wasAsleep /\ oled_sleeping
    /\ stepIn = 0 /\ ~edge /\ activity_age = OLED_SLEEP_SECS

\* C14: the auto-save is anchored to the first edit of a dirty run.  While the
\* settings are dirty the save timer runs from the frame of the first edit of the
\* run and no later edit moves it; nothing is written before the save delay has
\* passed since that first edit; on every frame at or after it the save is made,
\* and a save that reaches the file leaves the settings not dirty and equal to
\* what was saved; each dirty run is saved once.
C14_SaveAnchoredToFirstEdit ==
    /\ settings_dirty => dirty_age = run_age
    /\ wrote # "none" => run_age >= SETTINGS_SAVE_DELAY
    /\ (settings_dirty /\ run_age >= SETTINGS_SAVE_DELAY) => wrote = "failed"
    /\ wrote = "ok" => ~settings_dirty
    /\ ~settings_dirty =>
          <<last_saved_hue, last_saved_brightness, last_saved_lang>> = <<hue, user_pct, lang_idx>>
    /\ nRuns = nSaves + (IF settings_dirty THEN 1 ELSE 0)

\* Two changes of the colour one tick apart, saved once, on the frame that comes the
\* save delay after the first of them and less than that after the second
C14_Witness ==
    /\ wrote = "ok" /\ nRuns = 1 /\ nSaves = 1 /\ runEdits = 2
    /\ savedAfter = SETTINGS_SAVE_DELAY - 1
    /\ ~settings_dirty /\ hue # <<0, 0>> /\ last_saved_hue = hue

\* C15 as stated: on Info every debounced press edge moves the screen to Color
C15_AsStated ==
    (atScreen = 0 /\ edge) => screen = 1

\* C15: on Info, with the display awake and more than the minimum interval since
\* the last screen change (or since startup), a debounced press edge moves the
\* screen to Color and restarts the interval; on Color no frame inside the
\* interval changes the screen, whatever press edges it sees.
C15_OnePressOneChange ==
    /\ (atScreen = 0 /\ edge /\ ~wasAsleep /\ gateOpen) => (screen = 1 /\ change_age = 0)
    /\ (atScreen = 0 /\ ~(edge /\ ~wasAsleep /\ gateOpen)) => screen = 0
    /\ (atScreen = 1 /\ ~gateOpen) => screen = 1

\* A second accepted press edge, two ticks after the one that left Info, changes nothing
C15_Witness ==
    /\ atScreen = 1 /\ screen = 1 /\ edge /\ ~wasAsleep /\ ~gateOpen
    /\ change_age = SCREEN_CHANGE_DELAY

\* C16: the screen changes only on a frame that comes more than the minimum interval
\* after the frame of the previous screen change, or after startup when there was
\* none; this holds for every transition, the cancel and the confirmation on
\* Confirm and the exit of the reset menu included.
C16_ScreenChangesGated ==
    /\ screen # atScreen => shownFor > SCREEN_CHANGE_DELAY
    /\ shown_age = change_age

\* Rotation cancels the confirmation just after the interval has passed
C16_Witness ==
    /\ atScreen = 5 /\ screen = 0 /\ stepIn # 0 /\ ret = "none"
    /\ shownFor = SCREEN_CHANGE_DELAY + 1 /\ shown_age = 0

\* C17: in every reachable state the hue is at least 0 and less than 1, at startup
\* and after any turns of the knob on the Color screen
C17_HueInRange ==
    ~Neg(hue) /\ Less(hue, One)

\* C18: in every reachable state the brightness is in 0..100, at startup from a
\* persisted value outside the range and after steps that would leave it; the
\* screen is one of the six, the selection is in 0..3 and the language index is
\* an index of the language list.
C18_SettingsInRange ==
    /\ user_pct \in 0..100
    /\ screen \in 0..5
    /\ selection \in 0..3
    /\ lang_idx \in 0..(NUM_LANGUAGES - 1)

\* The brightness, found below the range and started at 0, is turned down and stays 0
C18_Witness ==
    /\ atScreen = 2 /\ stepIn = -1 /\ ~wasAsleep
    /\ user_pct = 0 /\ last_saved_brightness = 0 /\ edits = 0

\* C19: once every poll iteration incurs a read error, on the quadrature lines or on
\* the button line, the sampler stops within a bounded number of iterations: it
\* never completes more than MAX_ERRORS + 1 such iterations in a row.
C19_StopsAfterErrors ==
    errIters <= MAX_ERRORS + 1

\* C20: once the sampler has stopped itself, every steps() call returns 0 and every
\* pressed() call returns False, whatever was pending when it stopped.
C20_IdleAfterStop ==
    afterStop = "none"

(***************************************************************************)
(* close(), the stop flag and the lines                                    *)
(***************************************************************************)
\* C21: close() sets the stop flag, waits for the sampler no longer than the join
\* timeout, then closes all three lines whether or not the sampler has ended (each
\* line's gpio_free reaches the driver, and the lines are free unless the driver
\* refused); no exception leaves close(); a second close() frees nothing again.
C21_CloseStopsJoinsReleases ==
    /\ phase[1] \in {"stopping", "joined", "closed"} => stop[1]
    /\ joinWaited <= JOIN_TIMEOUT_MS
    /\ phase[1] = "closed" => \A l \in Lines : freeCalls[1][l] = 1
    /\ phase[1] = "closed" /\ ~driverFailed => claimed_pins = {} /\ \A l \in Lines : held[l] = 0
    /\ ~raised
    /\ ~strayFree
    /\ \A l \in Lines : freeCalls[1][l] <= 1

\* close() has returned twice while the sampler, stuck in a read, is still alive
C21_Witness ==
    /\ closes[1] = 2
    /\ phase[1] = "closed"
    /\ alive[1]
    /\ joinWaited = JOIN_TIMEOUT_MS
    /\ \A l \in Lines : held[l] = 0

\* The sampler has added at most the detent and the latch of the iteration that was in
\* progress when the stop flag was set
C22_NothingAfterTheIteration ==
    stop[1] => /\ extracted - stopMark[1] \in {-1, 0, 1}
               /\ nLatch - stopMark[2] \in {0, 1}
               /\ ~alive[1] /\ stopMark[3] \in {"quad", "sleep", "wait"} =>
                      extracted = stopMark[1] /\ nLatch = stopMark[2]

\* C22: once the stop flag is set the sampler ends, provided reads return, from the
\* top of an iteration as from the wait for release with the button held; it adds at
\* most the detent and the latch of the iteration in progress, and none when the flag
\* was set between iterations or in the wait for release.
C22_StopEndsSampler ==
    /\ [](C22_NothingAfterTheIteration)
    /\ (stop[1] /\ ~hung) ~> (~alive[1] \/ hung)

\* The flag was set during the wait for release, and the sampler has ended with the
\* button still held
C22_Witness ==
    /\ stopMark[3] = "wait"
    /\ stop[1]
    /\ ~alive[1]
    /\ ~hung
    /\ Active(sw)
    /\ press_latch

\* The lines claimed at the driver
HeldLines == {l \in Lines : held[l] # 0}

\* C23: unless the driver refused to free a line, between constructions and close()
\* calls the registry holds exactly the lines claimed at the driver, and once the
\* object constructed last has been closed no line is claimed at the driver.
C23_LinesExclusiveAndReleased ==
    (~Busy /\ ~driverFailed) =>
        /\ claimed_pins = HeldLines
        /\ (latest # 0 /\ phase[latest] = "closed") => HeldLines = {}

(***************************************************************************)
(* The burst read                                                          *)
(***************************************************************************)
RECURSIVE SumReturned(_)
\* Sum of the values of the steps() calls that returned
SumReturned(b) ==
    IF b = <<>> THEN 0
    ELSE SumReturned(Tail(b)) + (IF Head(b)[1][1] THEN Head(b)[1][2] ELSE 0)

\* Some pressed() call returned True
SomePressed(b) == \E k \in 1..Len(b) : b[k][2][1] /\ b[k][2][2]

\* C24: whatever calls raise, the burst makes all its steps() and pressed() calls and
\* returns the sum of the steps() values that came back and the OR of the pressed()
\* values that came back; (0, False) when every call raised.
C24_BurstSumsWhatReturned ==
    /\ calls = <<sample, sample>>
    /\ total_steps = SumReturned(burst)
    /\ any_press = SomePressed(burst)
    /\ (\A k \in 1..Len(burst) : ~burst[k][1][1] /\ ~burst[k][2][1]) =>
           total_steps = 0 /\ ~any_press

\* A finished burst in which a steps() call raised and the pressed() call of the same
\* sample returned True, and another sample gave a step
C24_Witness ==
    /\ sample = SAMPLES
    /\ \E k \in 1..SAMPLES : ~burst[k][1][1] /\ burst[k][2] = <<TRUE, TRUE>>
    /\ \E k \in 1..SAMPLES : burst[k][1] = <<TRUE, -1>> /\ ~burst[k][2][1]
    /\ total_steps = -1
    /\ any_press

(***************************************************************************)
(* Frames without an encoder                                               *)
(***************************************************************************)
\* C25: a frame of handle() without an encoder leaves screen, selection, confirm_for,
\* hue, brightness and language as they are and returns the no-op action; it puts the
\* display to sleep exactly when it sleeps already or the sleep delay has passed since
\* the last activity; and it attempts the save of dirty settings once the save delay
\* has passed (dirty settings older than the delay are only left by a failed write).
C25_NoEncoderFrameKeepsTimers ==
    [][ (~hasEncoder /\ ~hasEncoder') =>
          /\ UNCHANGED menuState
          /\ ret' = "none"
          /\ oled_sleeping' = (oled_sleeping \/ activity_age' >= OLED_SLEEP_SECS)
          /\ (settings_dirty' /\ dirty_age' >= SETTINGS_SAVE_DELAY) => wrote' = "failed"
          /\ wrote' = "ok" => /\ settings_dirty /\ ~settings_dirty'
                              /\ <<last_saved_hue', last_saved_brightness', last_saved_lang'>>
                                   = <<hue, user_pct, lang_idx>> ]_vars

\* Without an encoder, a frame has put the display to sleep and saved the colour that
\* was edited while there was one
C25_Witness ==
    /\ ~hasEncoder
    /\ edits > 0
    /\ ~wasAsleep /\ oled_sleeping
    /\ wrote = "ok"
    /\ ~settings_dirty
    /\ last_saved_hue = hue
    /\ screen = 1

(***************************************************************************)
(* The settings file                                                       *)
(***************************************************************************)
\* C26: at every instant, a crash included, the settings file holds a complete
\* record: the last one it held before or the one being written (or, before the first
\* write, it does not exist yet).
C26_FileHoldsCompleteRecord ==
    \/ settings_file = lastValid
    \/ settings_file = <<"complete", nWrites>>

(***************************************************************************)
(* A save that fails                                                       *)
(***************************************************************************)
lastSaved == <<last_saved_hue, last_saved_brightness, last_saved_lang>>

\* C27: a frame whose save fails returns as any other frame, leaves the settings dirty
\* since the first edit and the saved values as they were, and changes nothing of the
\* menu by itself; the frame after a failed save attempts the save again, and the save
\* that goes through records the values of that moment and clears dirty.
C27_FailedSaveIsRetried ==
    [][ /\ wrote' = "failed" =>
              /\ settings_dirty'
              /\ dirty_age' = run_age' /\ dirty_age' >= SETTINGS_SAVE_DELAY
              /\ lastSaved' = lastSaved
              /\ ret' \in {"none", "wifi", "qr", "both"}
        /\ (wrote' = "failed" /\ stepIn' = 0 /\ ~edge') => UNCHANGED menuState
        /\ wrote = "failed" => wrote' \in {"failed", "ok"}
        /\ wrote' = "ok" => /\ ~settings_dirty'
                            /\ lastSaved' = <<hue', user_pct', lang_idx'>> ]_vars

\* The save failed on two frames and went through on the next, with the colour as it
\* was edited
C27_Witness ==
    /\ wrote = "ok"
    /\ nFailed = 2
    /\ nSaves = 1
    /\ ~settings_dirty
    /\ hue # <<0, 0>>
    /\ last_saved_hue = hue

(***************************************************************************)
(* The screens                                                             *)
(***************************************************************************)
\* The changes of screen: Info, Color, Brightness, Language, Reset menu in turn, from
\* the Reset menu back to Info or on to Confirm, from Confirm back to Info
ScreenEdges == {<<0, 1>>, <<1, 2>>, <<2, 3>>, <<3, 4>>, <<4, 0>>, <<4, 5>>, <<5, 0>>}

\* C28: the menu starts on Info; a frame changes the screen along one of the edges
\* above or not at all, and only when it has a press edge or, on Confirm, a step.
C28_ScreensFollowEdges ==
    /\ screen = 0
    /\ [][ screen' # screen =>
              /\ <<screen, screen'>> \in ScreenEdges
              /\ edge' \/ (screen = 5 /\ stepIn' # 0) ]_vars

\* Confirm, reached through every screen, has been left for Info by a turn of the knob
\* without a press edge
C28_Witness ==
    /\ atScreen = 5 /\ screen = 0
    /\ stepIn # 0 /\ ~edge
    /\ atConfirm = "wifi"

\* C29: awake on the Reset menu a frame sets selection to (selection + step) mod 4,
\* and a press edge with the gate open acts on that new selection: 0 goes to Info and
\* leaves confirm_for unset, 1, 2, 3 go to Confirm for wifi, qr, both; without it the
\* screen stays.
C29_ResetMenuSelects ==
    [][ (screen = 4 /\ ~oled_sleeping /\ hasEncoder) =>
          /\ selection' = (selection + stepIn') % 4
          /\ (edge' /\ gateOpen') =>
                IF selection' = 0
                THEN screen' = 0 /\ confirm_for' = "none" /\ confirm_for = "none"
                ELSE screen' = 5 /\ confirm_for' = ResetActions[selection']
          /\ ~(edge' /\ gateOpen') => screen' = 4 /\ UNCHANGED confirm_for ]_vars

\* From selection 0, a frame with a step back and a press edge has gone to Confirm
\* for both
C29_Witness ==
    /\ atScreen = 4 /\ screen = 5
    /\ stepIn = -1 /\ edge /\ gateOpen
    /\ selection = 3
    /\ confirm_for = "both"

\* C30: a frame has a press edge exactly when its burst reported a press, the burst
\* of the frame before reported none, and the last frame with a press edge lies more
\* than the debounce time back.
C30_EdgeIsDebouncedRise ==
    edge = (btn_was_pressed /\ ~rawBefore /\ edgeFor > BTN_EDGE_DEBOUNCE)

\* A press that follows a release within the debounce time of the last press edge is
\* no edge
C30_Witness ==
    /\ btn_was_pressed /\ ~rawBefore
    /\ edgeFor <= BTN_EDGE_DEBOUNCE
    /\ ~edge

\* C31: on three stub lines the sampler never reports a step and never latches a
\* press, for either polarity, and it is never waiting for a release.
C31_StubIsIdle ==
    (\A l \in Lines : pins[1][l] = "dummy") =>
        /\ steps = 0 /\ extracted = 0 /\ returned = 0
        /\ ~press_latch /\ nLatch = 0
        /\ spc # "wait"

\* C32: when cleanup_all has run on a chip reference, every line that was in the
\* registry is free at the driver, the chip handle is closed at the driver, the
\* registry is empty and the chip reference is None.
C32_CleanupAllCleans ==
    sweep.ran => /\ sweep.lines = {}
                 /\ sweep.handle = 0
                 /\ sweep.reg = {}
                 /\ sweep.ref = 0

\* C33: the screen is Confirm exactly when an action is pending; an action becomes
\* pending only in a frame that goes from the reset menu to Confirm; and a frame on
\* Confirm, awake and without a step, whose press edge passes the screen-change gate
\* returns an action: Confirm is never left for Info on a press without one.
C33_ConfirmIffPending ==
    /\ (screen = 5) = (confirm_for # "none")
    /\ (confirm_for # "none" /\ atConfirm = "none") => (atScreen = 4 /\ edge /\ gateOpen)
    /\ (atScreen = 5 /\ ~wasAsleep /\ edge /\ gateOpen /\ stepIn = 0) =>
           (ret # "none" /\ ret = atConfirm)
    /\ (atScreen = 5 /\ screen = 0 /\ stepIn = 0) => ret # "none"

C33_Witness ==
    /\ atScreen = 5 /\ ~wasAsleep /\ edge /\ gateOpen /\ stepIn = 0
    /\ screen = 0 /\ confirm_for = "none" /\ ret = "qr"

\* C34 as stated: on Confirm a frame with both a nonzero step and a press edge leaves
\* Info with confirm_for cleared and returns no action, and an action is returned
\* only by a frame without a step.  Fails for a frame within the screen-change delay
\* of entering Confirm, and for one that wakes the display: both leave Confirm as it was.
C34_AsStated ==
    /\ (atScreen = 5 /\ stepIn # 0 /\ edge) =>
           (screen = 0 /\ confirm_for = "none" /\ ret = "none")
    /\ ret # "none" => stepIn = 0

\* C34 amended: on Confirm a frame with both a nonzero step and a press edge returns
\* no action; awake and past the screen-change delay it leaves Info with confirm_for
\* cleared, otherwise it leaves Confirm as it was.  An action is returned only by a
\* frame with a press edge and no step.
C34_StepWithPressCancels ==
    /\ (atScreen = 5 /\ stepIn # 0 /\ edge) =>
           /\ ret = "none"
           /\ (~wasAsleep /\ gateOpen) => (screen = 0 /\ confirm_for = "none")
           /\ (wasAsleep \/ ~gateOpen) => (screen = 5 /\ confirm_for = atConfirm)
    /\ ret # "none" => (stepIn = 0 /\ edge)

\* C34 witness: awake on Confirm for "wifi", past the delay, a clockwise step together
\* with a press edge cancelled.
C34_Witness ==
    /\ atScreen = 5 /\ atConfirm = "wifi" /\ stepIn = 1 /\ edge /\ gateOpen /\ ~wasAsleep
    /\ screen = 0 /\ confirm_for = "none" /\ ret = "none"

\* C35: a frame returns a reset action only if an earlier frame, awake on the reset
\* menu, had a nonzero step; until then the selection is the first entry, nothing is
\* pending and no frame returns an action, whatever is pressed.
C35_ResetNeedsTurn ==
    /\ ret # "none" => (turned /\ stepIn = 0)
    /\ ~turned => (selection = 0 /\ confirm_for = "none" /\ screen # 5 /\ ret = "none")

\* C35 witness: after a turn on the reset menu a later frame returned "both"
C35_Witness ==
    turned /\ ret = "both" /\ stepIn = 0 /\ atScreen = 5

\* C36: a frame changes the selection only when it begins awake on the reset menu
\* with a nonzero step, and then to (selection + step) mod 4; every other frame, a
\* screen change included, leaves it, so the reset menu is entered again with the
\* entry that was selected before.
C36_SelectionOnlyOnResetMenu ==
    [][ /\ selection' = (IF screen = 4 /\ ~oled_sleeping /\ stepIn' # 0 /\ hasEncoder
                         THEN (selection + stepIn') % 4 ELSE selection)
        /\ (screen' # screen /\ stepIn' = 0) => selection' = selection
        /\ (screen' = 4 /\ screen # 4) => (screen = 3 /\ selection' = selection) ]_vars

\* C36 witness: the reset menu was entered from Language with an entry other than the
\* first still selected
C36_Witness ==
    screen = 4 /\ atScreen = 3 /\ selection # 0

\* C37: a frame changes each setting only when it begins awake on the screen that
\* owns it, and then by the frame's step whatever the time since the last screen
\* change: the hue on Color, the brightness on Brightness, the language on Language,
\* the selection on the reset menu; a frame on Info or Confirm changes none of them.
C37_StepGoesToScreenOwner ==
    [][ LET st    == stepIn'
            awake == hasEncoder /\ ~oled_sleeping
        IN  /\ hue' = (IF screen = 1 /\ awake /\ st # 0 THEN HueStep(hue, st) ELSE hue)
            /\ user_pct' = (IF screen = 2 /\ awake THEN ClampPct(user_pct + st)
                            ELSE user_pct)
            /\ lang_idx' = (IF screen = 3 /\ awake THEN (lang_idx + st) % NUM_LANGUAGES
                            ELSE lang_idx)
            /\ selection' = (IF screen = 4 /\ awake THEN (selection + st) % 4
                             ELSE selection)
            /\ (st # 0 /\ awake /\ screen = 1) => hue' # hue
            /\ (st # 0 /\ awake /\ screen = 3) => lang_idx' # lang_idx
            /\ (st # 0 /\ awake /\ screen = 4) => selection' # selection ]_vars

\* C37 witness: a step on Brightness within the screen-change delay of entering it
\* changed the brightness
C37_Witness ==
    /\ atScreen = 2 /\ stepIn # 0 /\ ~gateOpen /\ ~wasAsleep
    /\ settings_dirty /\ user_pct # last_saved_brightness /\ screen = 2

\* What the first sample after a hold makes of h transitions made during it: the
\* lines are compared with the state remembered from before the press
HeldSeen(h) == IF h % 4 = 1 THEN 1 ELSE IF h % 4 = 3 THEN -1 ELSE 0

\* C38 as stated: transitions the knob makes while the sampler waits for the release
\* are not counted, so what has been decoded is what the knob did at other times.
\* Fails when the knob is left one or three transitions away from where it was at the
\* press: the first sample after the release decodes that as a transition.
C38_AsStated ==
    lines = state => transSum = freeMoves

\* C38 amended: while the sampler waits for the release it decodes nothing (accum,
\* the remembered state and the detents extracted do not change, and the pending
\* steps change only by steps() emptying them); the transitions made meanwhile are
\* seen only afterwards, as the difference between the lines and the state remembered
\* from before the press: one or three of them count as a single transition, two or
\* four as none.
C38_NoDecodeWhileHeld ==
    /\ [](lines = state => transSum = freeMoves + HeldSeen(heldMoves))
    /\ [][ spc = "wait" =>
             /\ accum' = accum /\ state' = state
             /\ extracted' = extracted /\ transSum' = transSum
             /\ steps' = steps \/ (cpc = "zero" /\ steps' = 0) ]_vars

\* C38 witness: one transition made during the hold was decoded after the release
C38_Witness ==
    /\ nLatch = 1 /\ heldMoves = 1 /\ lines = state /\ spc \notin {"wait", "lock", "store"}
    /\ transSum = freeMoves + 1 /\ Released(sw)

\* C39: an iteration of the poll loop extracts at most one detent, of either sign;
\* between iterations |accum| < PPR; and PPR times the detents extracted so far plus
\* accum is the signed sum of the transitions decoded so far.
C39_AccumulatorBounded ==
    /\ det \in {-1, 0, 1}
    /\ spc \notin {"lock", "store"} => Abs(accum) < ppr
    /\ spc \in {"lock", "store"} => (det # 0 /\ Abs(accum) = ppr)
    /\ ppr * extracted + accum = transSum

\* C39 witness: PPR = 2, a detent was extracted on the way down and the knob has
\* come one transition back: one detent out, accum at 1, three transitions decoded
C39_Witness ==
    /\ ppr = 2 /\ extracted = -1 /\ accum = 1 /\ transSum = -1
    /\ dirs = {-1, 1} /\ spc = "sleep"

\* C40: a frame that returns a reset action leaves nothing to be saved: the settings
\* are not dirty and the hue, brightness and language are the ones last written.
C40_ResetLosesNothing ==
    ret # "none" =>
        /\ ~settings_dirty
        /\ ~HueDiffers(hue, last_saved_hue)
        /\ user_pct = last_saved_brightness
        /\ lang_idx = last_saved_lang

====
